---- MODULE Spec2Model ----
(***************************************************************************)
(* A model of geoutil: the geoset tree (Geo, Item, Geoset), its structural *)
(* operations, and the three file backends (geoset XML, polylist XML, DS9  *)
(* region text).                                                           *)
(*                                                                         *)
(* The tree model is a heap of Python objects, so that object identity     *)
(* (sharing, copies, by-reference construction) is part of the state.  The *)
(* backends are modelled on tree values, with every conversion (number     *)
(* formatting and parsing, JSON, WKT, region lines) computed as the code   *)
(* computes it.                                                            *)
(***************************************************************************)
EXTENDS Integers, Sequences, FiniteSets, TLC

VARIABLES
    heap,   \* the Python heap: a sequence of objects, an object's id is its index
    last,   \* the last call made on the tree model and what it returned
    nops,   \* number of calls made so far
    pc,     \* position of a backend run
    src,    \* the Geoset value handed to a backend's writer
    doc,    \* the document a backend wrote or reads (an XML tree, region lines)
    res     \* what a backend's reader has built so far

vars == <<heap, last, nops, pc, src, doc, res>>

(***************************************************************************)
(* Bounds of the model.                                                    *)
(***************************************************************************)
MaxOps == 2

(***************************************************************************)
(* Python values of the tree model.  A value is an integer: 0 is None, a   *)
(* positive number is a reference to heap[n], a negative number is one of  *)
(* the falsy scalars a caller may hand to a constructor.                   *)
(***************************************************************************)
None == 0
PyZero == -1
PyFalse == -2
PyEmptyStr == -3

FalsyScalars == {None, PyZero, PyFalse, PyEmptyStr}

IsRef(v) == v > 0

\* An optional number (dx, dy): <<>> is None, <<n>> is the number n.
NoneNum == <<>>
Num(n) == <<n>>

(***************************************************************************)
(* Heap objects.                                                           *)
(***************************************************************************)
Dict(elems) == [kind |-> "dict", elems |-> elems]
List(elems) == [kind |-> "list", elems |-> elems]
Tuple(elems) == [kind |-> "tuple", elems |-> elems]
Geom(shape) == [kind |-> "geom", shape |-> shape]
Hdr(cards) == [kind |-> "hdr", cards |-> cards]
GeoObj(geo, attrs) == [kind |-> "Geo", geo |-> geo, attrs |-> attrs]
ItemObj(geos, attrs) == [kind |-> "Item", geos |-> geos, attrs |-> attrs]
GeosetObj(items, attrs, hdr) ==
    [kind |-> "Geoset", items |-> items, attrs |-> attrs, hdr |-> hdr,
     _geos |-> None]

KindOf(h, v) == IF IsRef(v) THEN h[v].kind ELSE "scalar"
IsSeqObj(h, v) == KindOf(h, v) \in {"list", "tuple"}

\* The elements of a sequence-valued field: a list, a tuple, or (Python 3
\* only) the empty string, which has no elements.
Elems(h, v) == IF IsSeqObj(h, v) THEN h[v].elems ELSE <<>>

\* The one element of a singleton set; The({e(x) : x \in {d}}) is e with x
\* bound to the value of d, computed once.
The(S) == CHOOSE x \in S : TRUE

NoExc == "none"
Ok(h, r) == [h |-> h, r |-> r, exc |-> NoExc]
Raise(h, e) == [h |-> h, r |-> None, exc |-> e]
Alloc(h, obj) == Ok(Append(h, obj), Len(h) + 1)

(***************************************************************************)
(* Python's truth test and the constructors' getattr(x, '__iter__', False) *)
(***************************************************************************)
\* bool(v): None, 0, False, '' and empty containers are false; an instance of
\* Geo, Item or Geoset defines neither __len__ nor __nonzero__, so it is true.
Truthy(h, v) ==
    IF ~IsRef(v) THEN FALSE
    ELSE IF h[v].kind \in {"list", "tuple", "dict"} THEN h[v].elems # <<>>
    ELSE TRUE

\* Lists, tuples and dicts have __iter__; Geo, Item, Geoset, numbers and None
\* do not.  A str has __iter__ under Python 3 and none under Python 2:
\* strIter says which interpreter runs the code.
HasIter(h, v, strIter) ==
    IF IsRef(v) THEN h[v].kind \in {"list", "tuple", "dict"}
    ELSE v = PyEmptyStr /\ strIter

GeosOfItem(h, it) == Elems(h, h[it].geos)

Geo_init(h, geo, attrs) == Alloc(h, GeoObj(geo, attrs))

Item_init_NoWrap(h, geos, attrs, strIter) ==
    IF ~Truthy(h, geos)
    THEN LET l == Alloc(h, List(<<>>)) IN Alloc(l.h, ItemObj(l.r, attrs))
    ELSE Alloc(h, ItemObj(geos, attrs))

\* Item.__init__: "if not geos" replaces every falsy argument, an empty list
\* or tuple included, by a new empty list.
Item_init(h, geos, attrs, strIter) ==
    IF ~Truthy(h, geos)
    THEN LET l == Alloc(h, List(<<>>)) IN Alloc(l.h, ItemObj(l.r, attrs))
    ELSE IF ~HasIter(h, geos, strIter)
    THEN LET l == Alloc(h, List(<<geos>>)) IN Alloc(l.h, ItemObj(l.r, attrs))
    ELSE Alloc(h, ItemObj(geos, attrs))

Geoset_init_ByFalsy(h, items, attrs, hdr, strIter) ==
    IF ~Truthy(h, items)
    THEN LET l == Alloc(h, List(<<>>)) IN Alloc(l.h, GeosetObj(l.r, attrs, hdr))
    ELSE IF ~HasIter(h, items, strIter)
    THEN LET l == Alloc(h, List(<<items>>)) IN Alloc(l.h, GeosetObj(l.r, attrs, hdr))
    ELSE Alloc(h, GeosetObj(items, attrs, hdr))

\* Geoset.__init__: "if items is None" replaces None alone; any other value
\* without __iter__ is wrapped, and a sequence is kept as it is.
Geoset_init(h, items, attrs, hdr, strIter) ==
    IF items = None
    THEN LET l == Alloc(h, List(<<>>)) IN Alloc(l.h, GeosetObj(l.r, attrs, hdr))
    ELSE IF ~HasIter(h, items, strIter)
    THEN LET l == Alloc(h, List(<<items>>)) IN Alloc(l.h, GeosetObj(l.r, attrs, hdr))
    ELSE Alloc(h, GeosetObj(items, attrs, hdr))

(***************************************************************************)
(* Geometry values of the tree model (shapely Polygon and MultiPolygon):   *)
(* a type and the sub-polygons, each an exterior ring and its holes, a     *)
(* ring being its vertices <<x, y>>.                                       *)
(***************************************************************************)
Poly(ext, holes) == [ext |-> ext, holes |-> holes]
Shape(type, polys) == [type |-> type, polys |-> polys]

TriA == <<<<0, 0>>, <<4, 0>>, <<0, 4>>, <<0, 0>>>>
HoleA == <<<<1, 1>>, <<2, 1>>, <<1, 2>>, <<1, 1>>>>
TriB == <<<<5, 5>>, <<6, 5>>, <<5, 6>>, <<5, 5>>>>

PolygonA == Shape("Polygon", <<Poly(TriA, <<HoleA>>)>>)
MultiAB == Shape("MultiPolygon", <<Poly(TriA, <<>>), Poly(TriB, <<>>)>>)

\* A FITS header is its cards <<key, value>>.
_PROBLEMATIC_KEYS == {"CPDIS1", "CPDIS2"}
HdrA == <<<<"CRVAL1", 10>>, <<"CPDIS1", 7>>>>
HdrB == <<<<"CRVAL1", 20>>>>

\* astropy.wcs.WCS(proxy_hdr): the proxy header drops the problematic keys;
\* the transformation it stands for is reduced to the offset CRVAL1.
ProxyHdr(cards) == SelectSeq(cards, LAMBDA c : c[1] \notin _PROBLEMATIC_KEYS)
WcsOffset(cards) ==
    LET p == ProxyHdr(cards)
        at == {n \in DOMAIN p : p[n][1] = "CRVAL1"}
    IN IF at = {} THEN 0 ELSE p[CHOOSE n \in at : TRUE][2]

MapRing_XOnly(ring, dx, dy) ==
    [n \in DOMAIN ring |-> <<ring[n][1] + dx, ring[n][2]>>]

MapRing(ring, dx, dy) ==
    [n \in DOMAIN ring |-> <<ring[n][1] + dx, ring[n][2] + dy>>]

\* convert(poly, ...) of poly_translate, poly_pix2world and poly_world2pix:
\* a new polygon from the moved exterior, each moved hole subtracted from it.
convert(poly, dx, dy) ==
    Poly(MapRing(poly.ext, dx, dy),
         [n \in DOMAIN poly.holes |-> MapRing(poly.holes[n], dx, dy)])

MapShape(shape, dx, dy) ==
    Shape(shape.type, [n \in DOMAIN shape.polys |-> convert(shape.polys[n], dx, dy)])

\* poly_translate([geo], dx, dy)[0]: numpy raises TypeError on array + None.
poly_translate(shape, dx, dy) ==
    IF dx = NoneNum \/ dy = NoneNum
    THEN [shape |-> shape, exc |-> "TypeError"]
    ELSE [shape |-> MapShape(shape, dx[1], dy[1]), exc |-> NoExc]

\* poly_pix2world([geo], hdr)[0]: hdr.items() raises AttributeError on None.
poly_pix2world(h, shape, hdr) ==
    IF hdr = None
    THEN [shape |-> shape, exc |-> "AttributeError"]
    ELSE LET off == WcsOffset(h[hdr].cards)
         IN [shape |-> MapShape(shape, off, off), exc |-> NoExc]

poly_world2pix(h, shape, hdr) ==
    IF hdr = None
    THEN [shape |-> shape, exc |-> "AttributeError"]
    ELSE LET off == WcsOffset(h[hdr].cards)
         IN [shape |-> MapShape(shape, 0 - off, 0 - off), exc |-> NoExc]

(***************************************************************************)
(* The structural operations.  A call is [name, dx, dy, hdr]; the fields a *)
(* call does not use are None.                                             *)
(***************************************************************************)
CopyCall == [name |-> "copy", dx |-> NoneNum, dy |-> NoneNum, hdr |-> None]
TranslateCall(dx, dy) == [name |-> "translate", dx |-> dx, dy |-> dy, hdr |-> None]
Pix2worldCall(hdr) == [name |-> "pix2world", dx |-> NoneNum, dy |-> NoneNum, hdr |-> hdr]
World2pixCall(hdr) == [name |-> "world2pix", dx |-> NoneNum, dy |-> NoneNum, hdr |-> hdr]

\* The new geometry of Geo.copy / translate / pix2world / world2pix; copy is
\* self.geo.union(Point()), an equal geometry in a new object.
NewShape(h, shape, call) ==
    CASE call.name = "copy" -> [shape |-> shape, exc |-> NoExc]
      [] call.name = "translate" -> poly_translate(shape, call.dx, call.dy)
      [] call.name = "pix2world" -> poly_pix2world(h, shape, call.hdr)
      [] call.name = "world2pix" -> poly_world2pix(h, shape, call.hdr)

CopyAttrs_Shared(h, attrs) == Ok(h, attrs)

\* OrderedDict((key, val) for key, val in self.attrs.items()), or None
CopyAttrs(h, attrs) ==
    IF attrs = None THEN Ok(h, None) ELSE Alloc(h, Dict(h[attrs].elems))

CopyHdr_Shared(h, hdr) == Ok(h, hdr)

\* self.hdr.copy(), or None
CopyHdr(h, hdr) ==
    IF hdr = None THEN Ok(h, None) ELSE Alloc(h, Hdr(h[hdr].cards))

\* Geo.copy, Geo.translate, Geo.pix2world, Geo.world2pix
GeoCall(h, self, call) ==
    The({ IF conv.exc # NoExc THEN Raise(h, conv.exc)
          ELSE The({ The({ Geo_init(a2.h, a1.r, a2.r)
                           : a2 \in {CopyAttrs(a1.h, h[self].attrs)} })
                     : a1 \in {IF h[self].geo = None THEN Ok(h, None)
                               ELSE Alloc(h, Geom(conv.shape))} })
          : conv \in {IF h[self].geo = None
                      THEN [shape |-> <<>>, exc |-> NoExc]
                      ELSE NewShape(h, h[h[self].geo].shape, call)} })

\* [geo.<call>() for geo in self.geos]
RECURSIVE MapGeos(_, _, _, _)
MapGeos(h, geos, call, acc) ==
    IF geos = <<>> THEN [h |-> h, rs |-> acc, exc |-> NoExc]
    ELSE The({ IF x.exc # NoExc THEN [h |-> h, rs |-> <<>>, exc |-> x.exc]
               ELSE MapGeos(x.h, Tail(geos), call, Append(acc, x.r))
               : x \in {GeoCall(h, Head(geos), call)} })

\* Item.copy, Item.translate, Item.pix2world, Item.world2pix
ItemCall(h, self, call) ==
    The({ IF m.exc # NoExc THEN Raise(h, m.exc)
          ELSE The({ The({ Item_init(a.h, l.r, a.r, FALSE)
                           : a \in {CopyAttrs(l.h, h[self].attrs)} })
                     : l \in {Alloc(m.h, List(m.rs))} })
          : m \in {MapGeos(h, Elems(h, h[self].geos), call, <<>>)} })

\* [item.<call>() for item in self.items]
RECURSIVE MapItems(_, _, _, _)
MapItems(h, items, call, acc) ==
    IF items = <<>> THEN [h |-> h, rs |-> acc, exc |-> NoExc]
    ELSE The({ IF x.exc # NoExc THEN [h |-> h, rs |-> <<>>, exc |-> x.exc]
               ELSE MapItems(x.h, Tail(items), call, Append(acc, x.r))
               : x \in {ItemCall(h, Head(items), call)} })

UsedHdr_AlwaysStored(h, self, call) ==
    IF call.name \in {"pix2world", "world2pix"}
    THEN [call EXCEPT !.hdr = h[self].hdr]
    ELSE call

\* "if hdr is None: hdr = self.hdr" of Geoset.pix2world and Geoset.world2pix
UsedHdr(h, self, call) ==
    IF call.name \in {"pix2world", "world2pix"} /\ call.hdr = None
    THEN [call EXCEPT !.hdr = h[self].hdr]
    ELSE call

GeosetCall_StoresUsed(h, self, call) ==
    The({ IF m.exc # NoExc THEN Raise(h, m.exc)
          ELSE The({ The({ The({ Geoset_init(hd.h, l.r, a.r, hd.r, FALSE)
                                 : hd \in {CopyHdr(a.h, UsedHdr(h, self, call).hdr)} })
                           : a \in {CopyAttrs(l.h, h[self].attrs)} })
                     : l \in {Alloc(m.h, List(m.rs))} })
          : m \in {MapItems(h, Elems(h, h[self].items), UsedHdr(h, self, call), <<>>)} })

\* Geoset.copy, Geoset.translate, Geoset.pix2world, Geoset.world2pix
GeosetCall(h, self, call) ==
    The({ IF m.exc # NoExc THEN Raise(h, m.exc)
          ELSE The({ The({ The({ Geoset_init(hd.h, l.r, a.r, hd.r, FALSE)
                                 : hd \in {CopyHdr(a.h, h[self].hdr)} })
                           : a \in {CopyAttrs(l.h, h[self].attrs)} })
                     : l \in {Alloc(m.h, List(m.rs))} })
          : m \in {MapItems(h, Elems(h, h[self].items), UsedHdr(h, self, call), <<>>)} })

Call(h, self, call) ==
    CASE h[self].kind = "Geo" -> GeoCall(h, self, call)
      [] h[self].kind = "Item" -> ItemCall(h, self, call)
      [] h[self].kind = "Geoset" -> GeosetCall(h, self, call)

\* Geoset.geos: a new list in self._geos, filled item by item, geo by geo
RECURSIVE Flatten_ItemsReversed(_, _)
Flatten_ItemsReversed(h, items) ==
    IF items = <<>> THEN <<>>
    ELSE Flatten_ItemsReversed(h, Tail(items)) \o Elems(h, h[Head(items)].geos)

RECURSIVE Flatten(_, _)
Flatten(h, items) ==
    IF items = <<>> THEN <<>>
    ELSE Elems(h, h[Head(items)].geos) \o Flatten(h, Tail(items))

Geoset_geos_Cached(h, self) ==
    IF h[self]._geos # None THEN Ok(h, h[self]._geos)
    ELSE The({ Ok([l.h EXCEPT ![self]._geos = l.r], l.r)
               : l \in {Alloc(h, List(Flatten(h, Elems(h, h[self].items))))} })

Geoset_geos(h, self) ==
    The({ Ok([l.h EXCEPT ![self]._geos = l.r], l.r)
          : l \in {Alloc(h, List(Flatten(h, Elems(h, h[self].items))))} })

(***************************************************************************)
(* The textual summary, __str__.  The string is its lines; a line is its   *)
(* indent level, the class name, the numbers of the index part (none for   *)
(* ': ', i for ' i: ', i and i+n for ' i,i+n: '), the word and the counts   *)
(* of the body, the number of attrs if there is an attrs map, and whether  *)
(* ', FITS header' ends it.                                                *)
(***************************************************************************)
SummaryLine(level, class, istr, word, counts, attrstr, hdrstr) ==
    [level |-> level, class |-> class, istr |-> istr, word |-> word,
     counts |-> counts, attrstr |-> attrstr, hdrstr |-> hdrstr]

\* '' if self.attrs is None else ', {0:d} attr(s)'.format(len(self.attrs))
AttrStr(h, attrs) == IF attrs = None THEN <<>> ELSE <<Len(h[attrs].elems)>>

\* Geo.__str__(i, n, level=level)
Geo_str(h, self, i, n, level) ==
    SummaryLine(level, "Geo",
                IF i # <<>> /\ n # <<>> THEN <<i[1], i[1] + n[1]>> ELSE i,
                IF h[self].geo = None THEN "None" ELSE h[h[self].geo].shape.type,
                <<>>, AttrStr(h, h[self].attrs), FALSE)

\* Item.__str__(i, n, level=level)
Item_str(h, self, i, n, level) ==
    <<SummaryLine(level, "Item", i,
                  IF ~Truthy(h, h[self].geos) THEN "None" ELSE "geo(s)",
                  IF ~Truthy(h, h[self].geos) THEN <<>> ELSE <<Len(GeosOfItem(h, self))>>,
                  AttrStr(h, h[self].attrs), FALSE)>>
        \o [j \in DOMAIN GeosOfItem(h, self) |->
               Geo_str(h, GeosOfItem(h, self)[j], <<j>>, n, level + 1)]

RECURSIVE ItemSummaries(_, _, _, _)
ItemSummaries(h, items, j, n) ==
    IF j > Len(items) THEN <<>>
    ELSE Item_str(h, items[j], <<j>>, <<n>>, 1)
            \o ItemSummaries(h, items, j + 1, n + Len(GeosOfItem(h, items[j])))

RECURSIVE SumLens(_, _)
SumLens(h, items) ==
    IF items = <<>> THEN 0
    ELSE Len(GeosOfItem(h, Head(items))) + SumLens(h, Tail(items))

\* Geoset.__str__: geosstr is assigned in the else branch only, and read in
\* both.
Geoset_str(h, self) ==
    IF ~Truthy(h, h[self].items)
    THEN [text |-> <<>>, exc |-> "UnboundLocalError"]
    ELSE [text |-> <<SummaryLine(0, "Geoset", <<>>, "item(s)",
                                 <<Len(Elems(h, h[self].items)),
                                   SumLens(h, Elems(h, h[self].items))>>,
                                 AttrStr(h, h[self].attrs), h[self].hdr # None)>>
                      \o ItemSummaries(h, Elems(h, h[self].items), 1, 0),
          exc |-> NoExc]

\* str(self)
Summary(h, self) ==
    CASE h[self].kind = "Geo" ->
            [text |-> <<Geo_str(h, self, <<>>, <<>>, 0)>>, exc |-> NoExc]
      [] h[self].kind = "Item" ->
            [text |-> Item_str(h, self, <<>>, <<>>, 0), exc |-> NoExc]
      [] h[self].kind = "Geoset" -> Geoset_str(h, self)

(***************************************************************************)
(* The tree-model specification: a caller builds a tree with the           *)
(* constructors and then makes up to MaxOps calls on the objects it holds. *)
(***************************************************************************)
AttrsA == <<<<"name", 1>>, <<"flag", 2>>>>

\* What a caller puts in a tree: attrs maps or None, a header or None, the
\* geometry of every Geo, and lists or tuples as the child sequences.
Fill(attrs, hdr, geom, seq) == [attrs |-> attrs, hdr |-> hdr, geom |-> geom, seq |-> seq]
Bare == Fill(FALSE, FALSE, "None", "list")
Full == Fill(TRUE, TRUE, "Polygon", "list")
MultiTuple == Fill(TRUE, FALSE, "MultiPolygon", "tuple")
HdrTuple == Fill(FALSE, TRUE, "Polygon", "tuple")

\* The trees a run starts from: a fill and the number of Geos of each Item.
Tree(fill, sizes) == [fill |-> fill, sizes |-> sizes]
Trees ==
    { Tree(Bare, <<>>), Tree(HdrTuple, <<>>), Tree(Bare, <<0>>),
      Tree(HdrTuple, <<0>>), Tree(Full, <<1>>), Tree(MultiTuple, <<1>>),
      Tree(Full, <<0, 1>>) }

NewAttrs(h, fill) == IF fill.attrs THEN Alloc(h, Dict(AttrsA)) ELSE Ok(h, None)
NewSeq(h, fill, elems) ==
    IF fill.seq = "list" THEN Alloc(h, List(elems)) ELSE Alloc(h, Tuple(elems))

BuildGeo(h, fill) ==
    The({ The({ Geo_init(a.h, g.r, a.r) : a \in {NewAttrs(g.h, fill)} })
          : g \in {CASE fill.geom = "None" -> Ok(h, None)
                     [] fill.geom = "Polygon" -> Alloc(h, Geom(PolygonA))
                     [] fill.geom = "MultiPolygon" -> Alloc(h, Geom(MultiAB))} })

RECURSIVE BuildGeos(_, _, _, _)
BuildGeos(h, fill, n, acc) ==
    IF n = 0 THEN [h |-> h, rs |-> acc]
    ELSE The({ BuildGeos(g.h, fill, n - 1, Append(acc, g.r))
               : g \in {BuildGeo(h, fill)} })

BuildItem(h, fill, n) ==
    The({ The({ The({ Item_init(a.h, l.r, a.r, FALSE)
                      : a \in {NewAttrs(l.h, fill)} })
                : l \in {NewSeq(gs.h, fill, gs.rs)} })
          : gs \in {BuildGeos(h, fill, n, <<>>)} })

RECURSIVE BuildItems(_, _, _, _)
BuildItems(h, fill, sizes, acc) ==
    IF sizes = <<>> THEN [h |-> h, rs |-> acc]
    ELSE The({ BuildItems(it.h, fill, Tail(sizes), Append(acc, it.r))
               : it \in {BuildItem(h, fill, Head(sizes))} })

\* The caller also holds a header of its own, heap[1], to pass to pix2world.
BuildTree(fill, sizes) ==
    The({ The({ The({ The({ Geoset_init(hd.h, l.r, a.r, hd.r, FALSE)
                            : hd \in {IF fill.hdr THEN Alloc(a.h, Hdr(HdrA))
                                      ELSE Ok(a.h, None)} })
                      : a \in {NewAttrs(l.h, fill)} })
                : l \in {NewSeq(its.h, fill, its.rs)} })
          : its \in {BuildItems(<<Hdr(HdrB)>>, fill, sizes, <<>>)} })

\* A call as the model records it: what was called on which object with
\* which arguments, what it returned or raised, and the call before it.
Brief(c) == [op |-> c.op, recv |-> c.recv, res |-> c.res, exc |-> c.exc]
NoCall ==
    [op |-> "init", recv |-> None, arg |-> None, dx |-> NoneNum, dy |-> NoneNum,
     strIter |-> FALSE, res |-> None, exc |-> NoExc, text |-> <<>>,
     coordsys |-> <<>>,
     prev |-> [op |-> "init", recv |-> None, res |-> None, exc |-> NoExc]]

Idle == "idle"

TreeInit ==
    /\ \E t \in Trees : heap = BuildTree(t.fill, t.sizes).h
    /\ last = NoCall
    /\ nops = 0
    /\ pc = Idle /\ src = <<>> /\ doc = <<>> /\ res = <<>>

Refs(h) == DOMAIN h
OfKind(h, kinds) == {o \in Refs(h) : h[o].kind \in kinds}

\* A tree the documented constructors' inputs give: an Item holds Geos, a
\* Geoset holds Items.
WellTyped(h, o) ==
    CASE h[o].kind = "Geo" -> TRUE
      [] h[o].kind = "Item" ->
            /\ IsSeqObj(h, h[o].geos)
            /\ \A n \in DOMAIN Elems(h, h[o].geos) :
                  KindOf(h, Elems(h, h[o].geos)[n]) = "Geo"
      [] h[o].kind = "Geoset" ->
            /\ IsSeqObj(h, h[o].items)
            /\ \A n \in DOMAIN Elems(h, h[o].items) :
                  LET it == Elems(h, h[o].items)[n]
                  IN /\ KindOf(h, it) = "Item"
                     /\ IsSeqObj(h, h[it].geos)
                     /\ \A m \in DOMAIN Elems(h, h[it].geos) :
                           KindOf(h, Elems(h, h[it].geos)[m]) = "Geo"
      [] OTHER -> FALSE

Receivers(h) == {o \in OfKind(h, {"Geo", "Item", "Geoset"}) : WellTyped(h, o)}

SeqUse(h, l) ==
    {"Geo" : o \in {o \in OfKind(h, {"Item"}) : h[o].geos = l}}
        \cup {"Item" : o \in {o \in OfKind(h, {"Geoset"}) : h[o].items = l}}
        \cup {KindOf(h, h[l].elems[n]) : n \in DOMAIN h[l].elems}

DoCall(self, call) ==
    /\ nops < MaxOps
    /\ \E x \in {Call(heap, self, call)} :
       /\ heap' = x.h
       /\ last' = [op |-> call.name, recv |-> self, arg |-> call.hdr,
                   dx |-> call.dx, dy |-> call.dy, strIter |-> FALSE,
                   res |-> x.r, exc |-> x.exc, text |-> <<>>,
                   coordsys |-> <<>>, prev |-> Brief(last)]
       /\ nops' = nops + 1
       /\ UNCHANGED <<pc, src, doc, res>>

Shifts == {<<Num(3), Num(5)>>, <<NoneNum, Num(5)>>, <<Num(3), NoneNum>>}
HdrArgs(h) == {None} \cup OfKind(h, {"hdr"})

Copy == \E self \in Receivers(heap) : DoCall(self, CopyCall)

Translate ==
    \E self \in Receivers(heap), d \in Shifts :
        DoCall(self, TranslateCall(d[1], d[2]))

Pix2world ==
    \E self \in Receivers(heap), hdr \in HdrArgs(heap) :
        DoCall(self, Pix2worldCall(hdr))

World2pix ==
    \E self \in Receivers(heap), hdr \in HdrArgs(heap) :
        DoCall(self, World2pixCall(hdr))

\* geoset.geos
GetGeos ==
    /\ nops < MaxOps
    /\ \E self \in {o \in Receivers(heap) : heap[o].kind = "Geoset"} :
        \E x \in {Geoset_geos(heap, self)} :
           /\ heap' = x.h
           /\ last' = [NoCall EXCEPT !.op = "geos", !.recv = self, !.res = x.r,
                                      !.prev = Brief(last)]
           /\ nops' = nops + 1
           /\ UNCHANGED <<pc, src, doc, res>>

\* What a caller passes as the child sequence: a falsy scalar, a list or a
\* tuple of children (possibly empty), or a single child.
CtorArgs(h, child) ==
    FalsyScalars
        \cup {l \in OfKind(h, {"list", "tuple"}) : SeqUse(h, l) \subseteq {child}}
        \cup OfKind(h, {child})

StrIters(arg) == IF arg = PyEmptyStr THEN BOOLEAN ELSE {FALSE}

\* Item(arg)
NewItem ==
    /\ nops < MaxOps
    /\ \E arg \in CtorArgs(heap, "Geo") : \E strIter \in StrIters(arg) :
        \E x \in {Item_init(heap, arg, None, strIter)} :
           /\ heap' = x.h
           /\ last' = [NoCall EXCEPT !.op = "Item", !.arg = arg, !.res = x.r,
                                      !.strIter = strIter, !.prev = Brief(last)]
           /\ nops' = nops + 1
           /\ UNCHANGED <<pc, src, doc, res>>

\* Geoset(arg)
NewGeoset ==
    /\ nops < MaxOps
    /\ \E arg \in CtorArgs(heap, "Item") : \E strIter \in StrIters(arg) :
        \E x \in {Geoset_init(heap, arg, None, None, strIter)} :
           /\ heap' = x.h
           /\ last' = [NoCall EXCEPT !.op = "Geoset", !.arg = arg, !.res = x.r,
                                      !.strIter = strIter, !.prev = Brief(last)]
           /\ nops' = nops + 1
           /\ UNCHANGED <<pc, src, doc, res>>

\* l.append(x), through whichever reference to the list the caller holds
ListAppend ==
    /\ nops < MaxOps
    /\ \E l \in OfKind(heap, {"list"}), x \in OfKind(heap, {"Geo", "Item"}) :
        /\ SeqUse(heap, l) \subseteq {heap[x].kind}
        /\ heap' = [heap EXCEPT ![l].elems = Append(@, x)]
        /\ last' = [NoCall EXCEPT !.op = "append", !.recv = l, !.arg = x,
                                   !.prev = Brief(last)]
        /\ nops' = nops + 1
        /\ UNCHANGED <<pc, src, doc, res>>

SetKey(elems, k, v) ==
    IF \E n \in DOMAIN elems : elems[n][1] = k
    THEN [n \in DOMAIN elems |-> IF elems[n][1] = k THEN <<k, v>> ELSE elems[n]]
    ELSE Append(elems, <<k, v>>)

\* d[k] = v: a key added or changed
DictSet ==
    /\ nops < MaxOps
    /\ \E d \in OfKind(heap, {"dict"}), k \in {"name", "new"} :
        /\ heap' = [heap EXCEPT ![d].elems = SetKey(@, k, 9)]
        /\ last' = [NoCall EXCEPT !.op = "setitem", !.recv = d,
                                   !.prev = Brief(last)]
        /\ nops' = nops + 1
        /\ UNCHANGED <<pc, src, doc, res>>

\* del d[k]
DictDel ==
    /\ nops < MaxOps
    /\ \E d \in OfKind(heap, {"dict"}) :
        /\ \E n \in DOMAIN heap[d].elems : heap[d].elems[n][1] = "name"
        /\ heap' = [heap EXCEPT ![d].elems = SelectSeq(@, LAMBDA e : e[1] # "name")]
        /\ last' = [NoCall EXCEPT !.op = "delitem", !.recv = d,
                                   !.prev = Brief(last)]
        /\ nops' = nops + 1
        /\ UNCHANGED <<pc, src, doc, res>>

\* str(self)
Str ==
    /\ nops < MaxOps
    /\ \E self \in Receivers(heap) :
        \E x \in {Summary(heap, self)} :
           /\ last' = [NoCall EXCEPT !.op = "str", !.recv = self, !.exc = x.exc,
                                      !.text = x.text, !.prev = Brief(last)]
           /\ nops' = nops + 1
           /\ UNCHANGED <<heap, pc, src, doc, res>>

TreeNext ==
    \/ Copy
    \/ Translate
    \/ Pix2world
    \/ World2pix
    \/ GetGeos
    \/ NewItem
    \/ NewGeoset
    \/ ListAppend
    \/ DictSet
    \/ DictDel

Spec == TreeInit /\ [][TreeNext]_vars

(***************************************************************************)
(* The flattened view: trees of several shapes, the caller appending to    *)
(* their lists and reading geoset.geos.                                    *)
(***************************************************************************)
FlatTrees ==
    { Tree(Bare, <<>>), Tree(Bare, <<0>>), Tree(Bare, <<1>>), Tree(Full, <<2>>),
      Tree(Bare, <<0, 2, 1>>), Tree(MultiTuple, <<2, 0>>), Tree(Full, <<1, 1>>) }

FlatInit ==
    /\ \E t \in FlatTrees : heap = BuildTree(t.fill, t.sizes).h
    /\ last = NoCall
    /\ nops = 0
    /\ pc = Idle /\ src = <<>> /\ doc = <<>> /\ res = <<>>

FlatNext ==
    \/ GetGeos
    \/ ListAppend

SpecFlat == FlatInit /\ [][FlatNext]_vars

(***************************************************************************)
(* Accesses of Geoset.geos interleaved with appends to and removals from   *)
(* any list the caller can reach: the items list, the geos list of an      *)
(* Item, or a list an earlier access returned.                             *)
(***************************************************************************)
MaxAccesses == 3

AccessTrees == { Tree(Bare, <<>>), Tree(Bare, <<1>>), Tree(Bare, <<0, 2>>) }

AccessInit ==
    /\ \E t \in AccessTrees : heap = BuildTree(t.fill, t.sizes).h
    /\ last = NoCall
    /\ nops = 0
    /\ pc = Idle /\ src = <<>> /\ doc = <<>> /\ res = <<>>

\* geoset.geos
AccessGeos ==
    /\ nops < MaxAccesses
    /\ \E self \in {o \in Receivers(heap) : heap[o].kind = "Geoset"} :
        \E x \in {Geoset_geos(heap, self)} :
           /\ heap' = x.h
           /\ last' = [NoCall EXCEPT !.op = "geos", !.recv = self, !.res = x.r,
                                      !.prev = Brief(last)]
           /\ nops' = nops + 1
           /\ UNCHANGED <<pc, src, doc, res>>

\* l.append(x)
AccessAppend ==
    /\ nops < MaxAccesses
    /\ \E l \in OfKind(heap, {"list"}), x \in OfKind(heap, {"Geo", "Item"}) :
        /\ SeqUse(heap, l) \subseteq {heap[x].kind}
        /\ heap' = [heap EXCEPT ![l].elems = Append(@, x)]
        /\ last' = [NoCall EXCEPT !.op = "append", !.recv = l, !.arg = x,
                                   !.prev = Brief(last)]
        /\ nops' = nops + 1
        /\ UNCHANGED <<pc, src, doc, res>>

\* del l[n]
AccessRemove ==
    /\ nops < MaxAccesses
    /\ \E l \in OfKind(heap, {"list"}) : \E n \in DOMAIN heap[l].elems :
        /\ heap' = [heap EXCEPT ![l].elems =
                        SubSeq(@, 1, n - 1) \o SubSeq(@, n + 1, Len(@))]
        /\ last' = [NoCall EXCEPT !.op = "remove", !.recv = l,
                                   !.arg = heap[l].elems[n], !.prev = Brief(last)]
        /\ nops' = nops + 1
        /\ UNCHANGED <<pc, src, doc, res>>

AccessNext ==
    \/ AccessGeos
    \/ AccessAppend
    \/ AccessRemove

SpecAccess == AccessInit /\ [][AccessNext]_vars

(***************************************************************************)
(* The summary and the structural operations on empty and on filled trees. *)
(***************************************************************************)
SummaryTrees ==
    { Tree(Bare, <<>>), Tree(Full, <<>>), Tree(HdrTuple, <<>>),
      Tree(MultiTuple, <<>>), Tree(Bare, <<0>>), Tree(Full, <<0>>),
      Tree(Full, <<0, 2>>), Tree(MultiTuple, <<1>>) }

SummaryInit ==
    /\ \E t \in SummaryTrees : heap = BuildTree(t.fill, t.sizes).h
    /\ last = NoCall
    /\ nops = 0
    /\ pc = Idle /\ src = <<>> /\ doc = <<>> /\ res = <<>>

SummaryNext ==
    \/ Copy
    \/ Translate
    \/ Pix2world
    \/ World2pix
    \/ Str

SpecSummary == SummaryInit /\ [][SummaryNext]_vars

(***************************************************************************)
(* Properties of the tree model.                                           *)
(***************************************************************************)
\* The objects an object refers to, and all it reaches.
Children(h, o) ==
    LET fields ==
            CASE h[o].kind = "Geoset" -> {h[o].items, h[o].attrs, h[o].hdr, h[o]._geos}
              [] h[o].kind = "Item" -> {h[o].geos, h[o].attrs}
              [] h[o].kind = "Geo" -> {h[o].geo, h[o].attrs}
              [] h[o].kind \in {"list", "tuple"} ->
                    {h[o].elems[n] : n \in DOMAIN h[o].elems}
              [] OTHER -> {}
    IN {v \in fields : IsRef(v)}

RECURSIVE ReachFrom(_, _)
ReachFrom(h, S) ==
    The({ IF T = S THEN S ELSE ReachFrom(h, T)
          : T \in {S \cup UNION {Children(h, o) : o \in S}} })

Reach(h, o) == ReachFrom(h, {o})

\* The Geo counts of the Items of Geoset gs, and the number of Geos before
\* Item a.
GeoCount(h, gs, a) == Len(Elems(h, h[Elems(h, h[gs].items)[a]].geos))

RECURSIVE GeosBefore(_, _, _)
GeosBefore(h, gs, a) ==
    IF a <= 1 THEN 0 ELSE GeosBefore(h, gs, a - 1) + GeoCount(h, gs, a - 1)

NumItems(h, gs) == Len(Elems(h, h[gs].items))

\* C5: geoset.geos is a list holding, Item after Item and in each Item's own
\* order, the very Geo objects the Items hold; its length is the sum of the
\* Items' Geo counts.
C5_FlattenedOrder ==
    last.op = "geos" =>
        LET gs == last.recv
            flat == heap[last.res].elems
        IN /\ heap[last.res].kind = "list"
           /\ Len(flat) = GeosBefore(heap, gs, NumItems(heap, gs) + 1)
           /\ \A a \in 1..NumItems(heap, gs) :
                 \A b \in 1..GeoCount(heap, gs, a) :
                    /\ flat[GeosBefore(heap, gs, a) + b]
                          = Elems(heap, heap[Elems(heap, heap[gs].items)[a]].geos)[b]
                    /\ heap[flat[GeosBefore(heap, gs, a) + b]].kind = "Geo"

\* C5 witness: the view of a Geoset whose Items hold 0, 2 and 1 Geos has
\* length 3.
C5_Witness ==
    /\ last.op = "geos"
    /\ NumItems(heap, last.recv) = 3
    /\ GeoCount(heap, last.recv, 1) = 0
    /\ GeoCount(heap, last.recv, 2) = 2
    /\ GeoCount(heap, last.recv, 3) = 1
    /\ Len(heap[last.res].elems) = 3

\* The lists of the trees: the items list of every Geoset and the geos list
\* of every Item.
TreeLists(h) ==
    {h[o].items : o \in OfKind(h, {"Geoset"})} \cup {h[o].geos : o \in OfKind(h, {"Item"})}
FlatOf(h, gs) == Flatten(h, Elems(h, h[gs].items))

\* C23: every access of Geoset.geos returns a list object that did not
\* exist before, holding the Geos of the tree as it is at that time, and
\* changes no other object (but the Geoset's own reference to the list);
\* an append to or removal from a list that is in no tree, such as a
\* returned list, changes no tree and not what an access returns.
C23_RecomputedView ==
    /\ [](last.op = "geos" =>
            /\ heap[last.res] = List(FlatOf(heap, last.recv))
            /\ last.res \notin TreeLists(heap))
    /\ [][(nops' = nops + 1 /\ last'.op = "geos") =>
            /\ last'.res \notin DOMAIN heap
            /\ \A o \in DOMAIN heap : o # last'.recv => heap'[o] = heap[o]
            /\ heap'[last'.recv] = [heap[last'.recv] EXCEPT !._geos = last'.res]]_vars
    /\ [][(nops' = nops + 1 /\ last'.op \in {"append", "remove"}
            /\ last'.recv \notin TreeLists(heap)) =>
            \A gs \in OfKind(heap, {"Geoset"}) :
               /\ FlatOf(heap', gs) = FlatOf(heap, gs)
               /\ heap'[gs].items = heap[gs].items
               /\ Geoset_geos(heap', gs).h[Geoset_geos(heap', gs).r]
                     = Geoset_geos(heap, gs).h[Geoset_geos(heap, gs).r]]_vars

\* C23 witness: a list was returned, a Geo was appended to it, and the
\* next access returned another list, without that Geo.
C23_Witness ==
    /\ nops = 3
    /\ last.op = "geos"
    /\ last.prev.op = "append"
    /\ last.prev.recv = last.res - 1
    /\ last.prev.recv \notin TreeLists(heap)
    /\ Len(heap[last.prev.recv].elems) = Len(heap[last.res].elems) + 1
    /\ Len(heap[last.res].elems) = 2

\* C6: Item(x) for a single Geo x has geos = [x] and Item(None) has
\* geos = []; Geoset(x) for a single Item x has items = [x] and Geoset(None)
\* has items = [].
C6_SingleAndNone ==
    /\ (last.op = "Item" /\ KindOf(heap, last.arg) = "Geo") =>
          heap[heap[last.res].geos] = List(<<last.arg>>)
    /\ (last.op = "Item" /\ last.arg = None) =>
          heap[heap[last.res].geos] = List(<<>>)
    /\ (last.op = "Geoset" /\ KindOf(heap, last.arg) = "Item") =>
          heap[heap[last.res].items] = List(<<last.arg>>)
    /\ (last.op = "Geoset" /\ last.arg = None) =>
          heap[heap[last.res].items] = List(<<>>)

\* C6 witness: a Geoset was constructed from a single Item.
C6_Witness ==
    /\ last.op = "Geoset"
    /\ KindOf(heap, last.arg) = "Item"
    /\ Len(Elems(heap, heap[last.res].items)) = 1

IsFalsyArg(h, v) == ~Truthy(h, v)

\* The child sequence a constructor call gave its object.
Children_of_result == IF last.op = "Item" THEN heap[last.res].geos ELSE heap[last.res].items

\* C7 as stated: every falsy argument (None, an empty list or tuple, 0,
\* False, '') gives an Item with no geos and a Geoset with no items.
C7_Original ==
    (last.op \in {"Item", "Geoset"} /\ IsFalsyArg(heap, last.arg)) =>
        /\ IsSeqObj(heap, Children_of_result)
        /\ Elems(heap, Children_of_result) = <<>>

\* C7 amended: every falsy argument gives an Item with no geos; for a
\* Geoset, None, an empty list and an empty tuple give no items, 0 and
\* False are wrapped as a one-element list, and '' is wrapped as [''] where
\* str has no __iter__ (Python 2) and kept as the items value itself where
\* it has one (Python 3).
C7_Amended ==
    /\ (last.op = "Item" /\ IsFalsyArg(heap, last.arg)) =>
          heap[heap[last.res].geos] = List(<<>>)
    /\ (last.op = "Geoset" /\ IsFalsyArg(heap, last.arg)) =>
          CASE last.arg = None -> heap[heap[last.res].items] = List(<<>>)
            [] IsSeqObj(heap, last.arg) ->
                  /\ heap[last.res].items = last.arg
                  /\ heap[last.arg].elems = <<>>
            [] last.arg \in {PyZero, PyFalse} ->
                  heap[heap[last.res].items] = List(<<last.arg>>)
            [] last.arg = PyEmptyStr ->
                  IF last.strIter THEN heap[last.res].items = PyEmptyStr
                  ELSE heap[heap[last.res].items] = List(<<PyEmptyStr>>)

\* C7 witness: Geoset(0) was called and its items hold the 0.
C7_Witness ==
    /\ last.op = "Geoset"
    /\ last.arg = PyZero
    /\ Len(Elems(heap, heap[last.res].items)) = 1

\* C8 as stated: a list or tuple passed to Item or Geoset, an empty one
\* included, is the constructed object's geos / items, the same object.
C8_ByReference ==
    (last.op \in {"Item", "Geoset"} /\ IsSeqObj(heap, last.arg)) =>
        Children_of_result = last.arg

StructOps == {"copy", "translate", "pix2world", "world2pix"}
Mutators == {"append", "setitem", "delitem"}

Untouched(S) == \A o \in S : heap'[o] = heap[o]

\* C9: right after c = g.copy() no object is shared between c and g, and a
\* key added, changed or deleted in an attrs map of one, or an append to a
\* list of one, leaves every object of the other as it was.
C9_DeepCopy ==
    /\ [](last.op = "copy" => Reach(heap, last.res) \cap Reach(heap, last.recv) = {})
    /\ [][(last.op = "copy" /\ last'.op \in Mutators) =>
            /\ last'.recv \in Reach(heap, last.res) =>
                  Untouched(Reach(heap, last.recv))
            /\ last'.recv \in Reach(heap, last.recv) =>
                  Untouched(Reach(heap, last.res))]_vars

\* C9 witness: a key was set in an attrs map of the copy of a Geoset.
C9_Witness ==
    /\ last.op = "setitem"
    /\ last.prev.op = "copy"
    /\ heap[last.prev.recv].kind = "Geoset"
    /\ last.recv \in Reach(heap, last.prev.res)
    /\ heap[last.recv] # heap[heap[last.prev.recv].attrs]

\* C10: a copy, translate, pix2world or world2pix call changes no object
\* that existed before it (the receiver's lists, geometries, attrs maps and
\* header), and what it returns is made of new objects only.
C10_NoMutation ==
    [][last'.op \in StructOps =>
        /\ Untouched(DOMAIN heap)
        /\ last'.exc = NoExc =>
              /\ last'.res \notin DOMAIN heap
              /\ Reach(heap', last'.res) \cap DOMAIN heap = {}]_vars

\* C10 witness: a second structural call in a row returned a Geoset with a
\* header, attrs and an Item.
C10_Witness ==
    /\ last.op = "translate"
    /\ last.exc = NoExc
    /\ last.prev.op \in StructOps
    /\ heap[last.res].kind = "Geoset"
    /\ heap[last.res].hdr # None
    /\ heap[last.res].attrs # None
    /\ NumItems(heap, last.res) > 0

ItemsOf(h, gs) == Elems(h, h[gs].items)

\* Both None, or two maps with the same keys and values in the same order.
AttrsCarried(h, a, b) ==
    \/ a = None /\ b = None
    \/ IsRef(a) /\ IsRef(b) /\ h[b].kind = "dict" /\ h[b].elems = h[a].elems

\* Both None, or two headers with the same cards.
HdrCarried(h, a, b) ==
    \/ a = None /\ b = None
    \/ IsRef(a) /\ IsRef(b) /\ h[b].kind = "hdr" /\ h[b].cards = h[a].cards

RingMoved(old, new, dx, dy) ==
    /\ Len(new) = Len(old)
    /\ \A n \in DOMAIN old : new[n][1] = old[n][1] + dx /\ new[n][2] = old[n][2] + dy

\* Both None, or geometry b is geometry a with every vertex of every ring
\* moved by (dx, dy).
GeomMoved(h, a, b, dx, dy) ==
    \/ a = None /\ b = None
    \/ /\ IsRef(a) /\ IsRef(b)
       /\ h[b].shape.type = h[a].shape.type
       /\ Len(h[b].shape.polys) = Len(h[a].shape.polys)
       /\ \A k \in DOMAIN h[a].shape.polys :
             /\ RingMoved(h[a].shape.polys[k].ext, h[b].shape.polys[k].ext, dx, dy)
             /\ Len(h[b].shape.polys[k].holes) = Len(h[a].shape.polys[k].holes)
             /\ \A m \in DOMAIN h[a].shape.polys[k].holes :
                   RingMoved(h[a].shape.polys[k].holes[m],
                             h[b].shape.polys[k].holes[m], dx, dy)

\* Geoset b has the Items and Geos of Geoset a in the same order, with the
\* attrs of every level and the header carried over, and every geometry
\* moved by (dx, dy).
GeosetMoved(h, a, b, dx, dy) ==
    /\ h[b].kind = "Geoset"
    /\ AttrsCarried(h, h[a].attrs, h[b].attrs)
    /\ HdrCarried(h, h[a].hdr, h[b].hdr)
    /\ Len(ItemsOf(h, b)) = Len(ItemsOf(h, a))
    /\ \A i \in DOMAIN ItemsOf(h, a) :
          LET ia == ItemsOf(h, a)[i]
              ib == ItemsOf(h, b)[i]
          IN /\ h[ib].kind = "Item"
             /\ AttrsCarried(h, h[ia].attrs, h[ib].attrs)
             /\ Len(GeosOfItem(h, ib)) = Len(GeosOfItem(h, ia))
             /\ \A j \in DOMAIN GeosOfItem(h, ia) :
                   LET ga == GeosOfItem(h, ia)[j]
                       gb == GeosOfItem(h, ib)[j]
                   IN /\ h[gb].kind = "Geo"
                      /\ AttrsCarried(h, h[ga].attrs, h[gb].attrs)
                      /\ GeomMoved(h, h[ga].geo, h[gb].geo, dx, dy)

\* C11: g.translate(dx, dy) for a Geoset g and numbers dx, dy returns a
\* Geoset with the same Items and Geos in the same order, the attrs of every
\* level and the header equal to the original's (None stays None), every
\* None geometry still None and every vertex of every other geometry moved
\* by exactly (dx, dy).
C11_TranslateFrame ==
    (/\ last.op = "translate" /\ heap[last.recv].kind = "Geoset"
     /\ last.dx # NoneNum /\ last.dy # NoneNum) =>
        /\ last.exc = NoExc
        /\ GeosetMoved(heap, last.recv, last.res, last.dx[1], last.dy[1])

\* C11 witness: a Geoset with attrs, a header, an empty Item and an Item
\* whose Geo is a polygon with a hole was translated by (3, 5).
C11_Witness ==
    /\ last.op = "translate" /\ heap[last.recv].kind = "Geoset"
    /\ last.dx = Num(3) /\ last.dy = Num(5)
    /\ heap[last.recv].attrs # None /\ heap[last.recv].hdr # None
    /\ Len(ItemsOf(heap, last.recv)) = 2
    /\ GeosOfItem(heap, ItemsOf(heap, last.recv)[1]) = <<>>
    /\ LET g == GeosOfItem(heap, ItemsOf(heap, last.res)[2])[1]
       IN /\ heap[heap[g].geo].shape.polys[1].ext[1] = <<3, 5>>
          /\ heap[heap[g].geo].shape.polys[1].holes[1][1] = <<4, 6>>

\* A Geoset with no Items or an Item with no Geos.
IsEmptyTree(h, o) ==
    \/ h[o].kind = "Geoset" /\ Elems(h, h[o].items) = <<>>
    \/ h[o].kind = "Item" /\ Elems(h, h[o].geos) = <<>>

\* C12 as stated: on a Geoset with no Items and on an Item with no Geos,
\* copy, translate, pix2world, world2pix and str complete without raising;
\* the first four return an empty tree of the same class and str returns a
\* string.
C12_EmptyTreeOps ==
    (last.op \in StructOps \cup {"str"} /\ IsEmptyTree(heap, last.recv)) =>
        /\ last.exc = NoExc
        /\ last.op \in StructOps =>
              /\ heap[last.res].kind = heap[last.recv].kind
              /\ IsEmptyTree(heap, last.res)
        /\ last.op = "str" => last.text # <<>>

\* The part of C12 the code keeps: everything but str of an empty Geoset.
C12_AllButGeosetStr ==
    (/\ last.op \in StructOps \cup {"str"} /\ IsEmptyTree(heap, last.recv)
     /\ ~(last.op = "str" /\ heap[last.recv].kind = "Geoset")) =>
        /\ last.exc = NoExc
        /\ last.op \in StructOps =>
              /\ heap[last.res].kind = heap[last.recv].kind
              /\ IsEmptyTree(heap, last.res)
        /\ last.op = "str" => last.text # <<>>

ConvOps == {"pix2world", "world2pix"}

\* The header argument of the last call and the header stored in its
\* receiver.
Supplied == last.arg
Stored == heap[last.recv].hdr

\* What a conversion with header hdr adds to every coordinate.
Offset(h, op, hdr) ==
    IF op = "pix2world" THEN WcsOffset(h[hdr].cards) ELSE 0 - WcsOffset(h[hdr].cards)

\* C16: Geoset.pix2world(hdr) and Geoset.world2pix(hdr) with a header
\* supplied convert every Geo's geometry with the supplied header, not with
\* the Geoset's own; with hdr None and a header stored in the Geoset they
\* convert every Geo's geometry with the stored header.
C16_HeaderSelection ==
    (last.op \in ConvOps /\ heap[last.recv].kind = "Geoset") =>
        /\ Supplied # None =>
              /\ last.exc = NoExc
              /\ GeosetMoved(heap, last.recv, last.res,
                             Offset(heap, last.op, Supplied),
                             Offset(heap, last.op, Supplied))
        /\ (Supplied = None /\ Stored # None) =>
              /\ last.exc = NoExc
              /\ GeosetMoved(heap, last.recv, last.res,
                             Offset(heap, last.op, Stored),
                             Offset(heap, last.op, Stored))

\* C16 witness: a Geoset whose own header gives the offset 10 was converted
\* with a supplied header that gives the offset 20, and its polygon starts
\* at (20, 20).
C16_Witness ==
    /\ last.op = "pix2world" /\ heap[last.recv].kind = "Geoset"
    /\ last.exc = NoExc
    /\ Supplied # None /\ Stored # None
    /\ WcsOffset(heap[Stored].cards) = 10
    /\ WcsOffset(heap[Supplied].cards) = 20
    /\ Len(ItemsOf(heap, last.res)) > 0
    /\ \E i \in DOMAIN ItemsOf(heap, last.res) :
          \E j \in DOMAIN GeosOfItem(heap, ItemsOf(heap, last.res)[i]) :
             LET g == GeosOfItem(heap, ItemsOf(heap, last.res)[i])[j]
             IN /\ heap[g].geo # None
                /\ heap[heap[g].geo].shape.polys[1].ext[1] = <<20, 20>>

\* C25: the Geoset that Geoset.pix2world(hdr) or Geoset.world2pix(hdr)
\* returns, for hdr None or a header, has hdr None when the receiver's hdr
\* is None, and else a header object of its own with the cards of the
\* receiver's; the supplied header is not the result's hdr.
C25_HeaderFromReceiver ==
    (last.op \in ConvOps /\ heap[last.recv].kind = "Geoset" /\ last.exc = NoExc) =>
        /\ heap[last.res].kind = "Geoset"
        /\ Stored = None => heap[last.res].hdr = None
        /\ Stored # None =>
              /\ heap[last.res].hdr \notin {None, Stored}
              /\ heap[heap[last.res].hdr] = heap[Stored]
              /\ \A o \in Refs(heap) \ {last.res} :
                    heap[o].kind = "Geoset" => heap[o].hdr # heap[last.res].hdr
        /\ Supplied # None => heap[last.res].hdr # Supplied

\* C25 witness: a Geoset with a stored header was converted with another
\* header supplied, and the result holds the cards of the stored one.
C25_Witness ==
    /\ last.op = "world2pix" /\ heap[last.recv].kind = "Geoset"
    /\ last.exc = NoExc
    /\ Supplied # None /\ Stored # None
    /\ heap[Supplied].cards # heap[Stored].cards
    /\ heap[heap[last.res].hdr].cards = heap[Stored].cards
    /\ Len(ItemsOf(heap, last.res)) > 0

\* C17 as stated: poly_pix2world([poly], None) and poly_world2pix([poly],
\* None), as Geo.pix2world(None) and Geo.world2pix(None) call them, return
\* without raising a polygon with the coordinates of the input; and
\* Geoset.pix2world() and Geoset.world2pix() on a Geoset with no stored and
\* no supplied header return the geometry unconverted.
C17_NoneHeaderNoConversion ==
    /\ (/\ last.op \in ConvOps /\ heap[last.recv].kind = "Geo"
        /\ heap[last.recv].geo # None /\ Supplied = None) =>
          /\ last.exc = NoExc
          /\ GeomMoved(heap, heap[last.recv].geo, heap[last.res].geo, 0, 0)
    /\ (/\ last.op \in ConvOps /\ heap[last.recv].kind = "Geoset"
        /\ Supplied = None /\ Stored = None) =>
          /\ last.exc = NoExc
          /\ GeosetMoved(heap, last.recv, last.res, 0, 0)

\* None as a shift read as 0.
ShiftOrZero(d) == IF d = NoneNum THEN 0 ELSE d[1]

\* C18 as stated: poly_translate([poly], dx, dy) with None for dx or dy, as
\* Geo.translate(dx, dy) calls it, returns without raising what it returns
\* with 0 in the place of None.
C18_NoneShiftIsZero ==
    (/\ last.op = "translate" /\ heap[last.recv].kind = "Geo"
     /\ heap[last.recv].geo # None
     /\ (last.dx = NoneNum \/ last.dy = NoneNum)) =>
        /\ last.exc = NoExc
        /\ GeomMoved(heap, heap[last.recv].geo, heap[last.res].geo,
                     ShiftOrZero(last.dx), ShiftOrZero(last.dy))

(***************************************************************************)
(* Floating-point numbers and their decimal text.  A float is the decimal  *)
(* its repr prints: a whole part and the fractional digits, without        *)
(* trailing zeros.  Fixed-point formatting keeps a given number of         *)
(* fractional digits, rounding on the first digit dropped; float() of a    *)
(* text of at most 15 significant digits is the float that prints as that  *)
(* text with its trailing zeros removed.                                   *)
(***************************************************************************)
Float(whole, frac) == [whole |-> whole, frac |-> frac]
DecText(whole, frac) == [whole |-> whole, frac |-> frac]

Digit(frac, n) == IF n <= Len(frac) THEN frac[n] ELSE 0

Max(S) == CHOOSE x \in S : \A y \in S : y <= x
Min(S) == CHOOSE x \in S : \A y \in S : x <= y

FloatLess(a, b) ==
    \/ a.whole < b.whole
    \/ /\ a.whole = b.whole
       /\ \E n \in 1..Max({Len(a.frac), Len(b.frac)}) :
             /\ Digit(a.frac, n) < Digit(b.frac, n)
             /\ \A m \in 1..(n - 1) : Digit(a.frac, m) = Digit(b.frac, m)

\* digits + 1 in the last place: the digits and the carry out of them
RECURSIVE Incr(_)
Incr(digits) ==
    IF digits = <<>> THEN [digits |-> <<>>, carry |-> 1]
    ELSE IF digits[Len(digits)] < 9
    THEN [digits |-> [digits EXCEPT ![Len(digits)] = @ + 1], carry |-> 0]
    ELSE The({ [digits |-> Append(up.digits, 0), carry |-> up.carry]
               : up \in {Incr(SubSeq(digits, 1, Len(digits) - 1))} })

\* '{0:.15f}'.format(x), '%.16f' % x
FormatFixed(x, nd) ==
    IF Digit(x.frac, nd + 1) < 5
    THEN DecText(x.whole, [n \in 1..nd |-> Digit(x.frac, n)])
    ELSE The({ DecText(x.whole + up.carry, up.digits)
               : up \in {Incr([n \in 1..nd |-> Digit(x.frac, n)])} })

StripZeros(digits) ==
    SubSeq(digits, 1, Max({0} \cup {n \in DOMAIN digits : digits[n] # 0}))

\* float(text)
ParseFloat(text) == Float(text.whole, StripZeros(text.frac))

\* '{0:d}'.format(n) and int(text)
RECURSIVE DecDigits(_)
DecDigits(n) == IF n < 10 THEN <<n>> ELSE Append(DecDigits(n \div 10), n % 10)

RECURSIVE ParseInt(_)
ParseInt(digits) ==
    IF Len(digits) = 1 THEN digits[1]
    ELSE 10 * ParseInt(SubSeq(digits, 1, Len(digits) - 1)) + digits[Len(digits)]

(***************************************************************************)
(* Region geometry.  A ring is its vertices <<x, y>>, floats; the rings of *)
(* the model are axis-parallel rectangles, and a region (what shapely      *)
(* computes with) is the set of grid cells it covers, the grid lines being *)
(* the coordinates that occur.                                             *)
(***************************************************************************)
Whole(n) == Float(n, <<>>)
Frac3 == Float(0, <<3, 0, 0, 0, 0, 0, 0, 0, 0, 0, 0, 0, 0, 0, 0, 0, 4>>)
Frac8 == Float(0, <<7, 9, 9, 9, 9, 9, 9, 9, 9, 9, 9, 9, 9, 9, 9, 9>>)

Rect(x1, y1, x2, y2) ==
    <<<<x1, y1>>, <<x2, y1>>, <<x2, y2>>, <<x1, y2>>, <<x1, y1>>>>

Outer == Rect(Whole(0), Whole(0), Whole(5), Whole(5))
Lake == Rect(Whole(1), Whole(1), Whole(4), Whole(4))
Island == Rect(Whole(2), Whole(2), Whole(3), Whole(3))
Far == Rect(Whole(6), Whole(0), Whole(7), Whole(1))
Sliver == Rect(Frac3, Whole(0), Frac8, Whole(1))

\* fmt = '.15f'
FmtDigits == 15

GridValues ==
    LET raw == UNION {{v[1], v[2]} : v \in
                        UNION {{r[n] : n \in DOMAIN r}
                               : r \in {Outer, Lake, Island, Far, Sliver}}}
    IN raw \cup {ParseFloat(FormatFixed(x, FmtDigits)) : x \in raw}

RankOf == [x \in GridValues |-> Cardinality({g \in GridValues : FloatLess(g, x)})]

Rank(x) == RankOf[x]

\* geometry.Polygon(zip(x, y))
RingRegion(ring) ==
    IF ring = <<>> THEN {}
    ELSE LET xs == {Rank(ring[n][1]) : n \in DOMAIN ring}
             ys == {Rank(ring[n][2]) : n \in DOMAIN ring}
         IN (Min(xs)..(Max(xs) - 1)) \X (Min(ys)..(Max(ys) - 1))

\* The geometries a Geo of the region model holds: a polygon, a polygon
\* with a hole, and multipolygons with a far part, with an island in the
\* hole of the part before it and of the part after it; a polygon whose
\* coordinates have more than 15 decimals.
RegionShapes ==
    { Shape("Polygon", <<Poly(Outer, <<>>)>>),
      Shape("Polygon", <<Poly(Outer, <<Lake>>)>>),
      Shape("MultiPolygon", <<Poly(Outer, <<Lake>>), Poly(Far, <<>>)>>),
      Shape("MultiPolygon", <<Poly(Outer, <<Lake>>), Poly(Island, <<>>)>>),
      Shape("MultiPolygon", <<Poly(Island, <<>>), Poly(Outer, <<Lake>>)>>),
      Shape("Polygon", <<Poly(Sliver, <<>>)>>) }

(***************************************************************************)
(* ds9regfile: the lines of a region file, write and read.                 *)
(***************************************************************************)
Absent == <<>>
Given(v) == <<v>>

\* A line of a region file: a comment, a blank line, a global line with its
\* key=value attributes, a line that is one word, a polygon(...) line with
\* its coordinate texts, the background marker and its tag={name n}
\* attributes, or any other line.
Line(kind) ==
    [kind |-> kind, word |-> "", coords |-> <<>>, background |-> FALSE,
     tags |-> <<>>, attrs |-> <<>>]
WordLine(word) == [Line("word") EXCEPT !.word = word]
GlobalLine(attrs) == [Line("global") EXCEPT !.attrs = attrs]

Tag(name, n) == <<name, DecDigits(n)>>

\* ','.join(fmt.format(i) for i in np.ravel(xy))
RECURSIVE CoordTexts(_)
CoordTexts(ring) ==
    IF ring = <<>> THEN <<>>
    ELSE <<FormatFixed(Head(ring)[1], FmtDigits), FormatFixed(Head(ring)[2], FmtDigits)>>
            \o CoordTexts(Tail(ring))

ExteriorLine(ring, i, j, k) ==
    [Line("polygon") EXCEPT !.coords = CoordTexts(ring),
                            !.tags = <<Tag("item", i), Tag("geo", j), Tag("poly", k)>>]

HoleLine_Unmarked(ring, i, j, k) ==
    [Line("polygon") EXCEPT !.coords = CoordTexts(ring),
                            !.tags = <<Tag("item", i), Tag("geo", j), Tag("poly", k)>>]

HoleLine(ring, i, j, k) ==
    [Line("polygon") EXCEPT !.coords = CoordTexts(ring), !.background = TRUE,
                            !.tags = <<Tag("item", i), Tag("geo", j), Tag("poly", k)>>]

RECURSIVE Concat(_)
Concat(seqs) == IF seqs = <<>> THEN <<>> ELSE Head(seqs) \o Concat(Tail(seqs))

SubpolyLines(subpoly, i, j, k) ==
    <<ExteriorLine(subpoly.ext, i, j, k)>>
        \o [n \in DOMAIN subpoly.holes |-> HoleLine(subpoly.holes[n], i, j, k)]

GeoLines_PolyFromOne(shape, i, j) ==
    Concat([k \in DOMAIN shape.polys |-> SubpolyLines(shape.polys[k], i, j, k)])

GeoLines(shape, i, j) ==
    Concat([k \in DOMAIN shape.polys |-> SubpolyLines(shape.polys[k], i, j, k - 1)])

ItemLines(geos, i) ==
    Concat([j \in DOMAIN geos |-> GeoLines(geos[j], i, j - 1)])

ds9regfile_write_Renumbered(items, coordsys) ==
    <<WordLine(IF coordsys = Absent THEN "physical" ELSE coordsys[1])>>
        \o The({ Concat([i \in DOMAIN kept |-> ItemLines(kept[i], i - 1)])
                 : kept \in {SelectSeq(items, LAMBDA geos : geos # <<>>)} })

\* ds9regfile.write(geoset, filename, coordsys): the lines of the file.  A
\* Geoset is here the sequence of its Items, an Item the sequence of the
\* geometries of its Geos (attrs and header are not written).
ds9regfile_write(items, coordsys) ==
    <<WordLine(IF coordsys = Absent THEN "physical" ELSE coordsys[1])>>
        \o Concat([i \in DOMAIN items |-> ItemLines(items[i], i - 1)])

\* OrderedDict(pairs)
RECURSIVE OrderedDictOf(_, _)
OrderedDictOf(pairs, acc) ==
    IF pairs = <<>> THEN acc
    ELSE OrderedDictOf(Tail(pairs), SetKey(acc, Head(pairs)[1], Head(pairs)[2]))

\* The reader's variables: the Geoset being built (its attrs, and its
\* Items, each the sequence of the regions of its Geos), the tag indices of
\* the previous polygon line and of this one, and the line it is at.
ReaderStart ==
    [attrs |-> Absent, items |-> <<>>,
     i0 |-> Absent, j0 |-> Absent, k0 |-> Absent,
     i |-> Absent, j |-> Absent, k |-> Absent,
     line |-> Line("blank"), exc |-> NoExc]

\* for idx in idx_list: tag, n = idx[1].split() ...
RECURSIVE AssignTags(_, _)
AssignTags(st, tags) ==
    IF tags = <<>> THEN st
    ELSE AssignTags(
            CASE Head(tags)[1] = "item" -> [st EXCEPT !.i = Given(ParseInt(Head(tags)[2]))]
              [] Head(tags)[1] = "geo" -> [st EXCEPT !.j = Given(ParseInt(Head(tags)[2]))]
              [] Head(tags)[1] = "poly" -> [st EXCEPT !.k = Given(ParseInt(Head(tags)[2]))]
              [] OTHER -> st,
            Tail(tags))

\* xy = [float(i) for i in coords.split()]; zip(xy[0::2], xy[1::2])
RingOf(coords) ==
    [n \in 1..(Len(coords) \div 2) |->
        <<ParseFloat(coords[2 * n - 1]), ParseFloat(coords[2 * n])>>]

\* The geometry of the current Geo (the last Geo of the last Item).
CurrentGeo(items) == items[Len(items)][Len(items[Len(items)])]
SetCurrentGeo(items, region) ==
    [items EXCEPT ![Len(items)][Len(items[Len(items)])] = region]

Decide_HoleBeforePoly(st, poly, is_hole) ==
    IF st.i # st.i0
    THEN [st EXCEPT !.items = Append(@, <<poly>>)]
    ELSE IF st.j # st.j0
    THEN [st EXCEPT !.items[Len(st.items)] = Append(@, poly)]
    ELSE IF is_hole
    THEN [st EXCEPT !.items = SetCurrentGeo(@, CurrentGeo(@) \ poly)]
    ELSE IF st.k # st.k0
    THEN [st EXCEPT !.items = SetCurrentGeo(@, CurrentGeo(@) \cup poly)]
    ELSE st

Decide_HoleFirst(st, poly, is_hole) ==
    IF is_hole /\ st.items # <<>>
    THEN [st EXCEPT !.items = SetCurrentGeo(@, CurrentGeo(@) \ poly)]
    ELSE IF st.i # st.i0
    THEN [st EXCEPT !.items = Append(@, <<poly>>)]
    ELSE IF st.j # st.j0
    THEN [st EXCEPT !.items[Len(st.items)] = Append(@, poly)]
    ELSE IF st.k # st.k0
    THEN [st EXCEPT !.items = SetCurrentGeo(@, CurrentGeo(@) \cup poly)]
    ELSE st

Decide_ItemByIndex(st, poly, is_hole) ==
    IF st.i # st.i0
    THEN IF st.i[1] < Len(st.items)
         THEN [st EXCEPT !.items[st.i[1] + 1] = Append(@, poly)]
         ELSE [st EXCEPT !.items = Append(@, <<poly>>)]
    ELSE IF st.j # st.j0
    THEN [st EXCEPT !.items[Len(st.items)] = Append(@, poly)]
    ELSE IF st.k # st.k0
    THEN [st EXCEPT !.items = SetCurrentGeo(@, CurrentGeo(@) \cup poly)]
    ELSE IF is_hole
    THEN [st EXCEPT !.items = SetCurrentGeo(@, CurrentGeo(@) \ poly)]
    ELSE st

Decide_RepeatUnites(st, poly, is_hole) ==
    IF st.i # st.i0
    THEN [st EXCEPT !.items = Append(@, <<poly>>)]
    ELSE IF st.j # st.j0
    THEN [st EXCEPT !.items[Len(st.items)] = Append(@, poly)]
    ELSE IF is_hole /\ st.k = st.k0
    THEN [st EXCEPT !.items = SetCurrentGeo(@, CurrentGeo(@) \ poly)]
    ELSE [st EXCEPT !.items = SetCurrentGeo(@, CurrentGeo(@) \cup poly)]

\* lines 114-124: what a polygon line does to the Geoset
Decide(st, poly, is_hole) ==
    IF st.i # st.i0
    THEN [st EXCEPT !.items = Append(@, <<poly>>)]
    ELSE IF st.j # st.j0
    THEN [st EXCEPT !.items[Len(st.items)] = Append(@, poly)]
    ELSE IF st.k # st.k0
    THEN [st EXCEPT !.items = SetCurrentGeo(@, CurrentGeo(@) \cup poly)]
    ELSE IF is_hole
    THEN [st EXCEPT !.items = SetCurrentGeo(@, CurrentGeo(@) \ poly)]
    ELSE st

PolygonStep(st, line) ==
    The({ IF Absent \in {t.i, t.j, t.k} THEN [t EXCEPT !.exc = "NameError"]
          ELSE The({ [d EXCEPT !.i0 = d.i, !.j0 = d.j, !.k0 = d.k]
                     : d \in {Decide(t, RingRegion(RingOf(line.coords)),
                                     line.background)} })
          : t \in {AssignTags(st, line.tags)} })

ReadStep_GlobalMerges(st0, line) ==
    The({ CASE line.kind \in {"comment", "blank"} -> st
            [] line.kind = "global" ->
                  [st EXCEPT !.attrs =
                      Given(OrderedDictOf(line.attrs,
                                          IF st.attrs = Absent THEN <<>> ELSE st.attrs[1]))]
            [] line.kind = "word" /\ line.word \in {"physical", "fk5"} ->
                  [st EXCEPT !.attrs =
                      Given(SetKey(IF st.attrs = Absent THEN <<>> ELSE st.attrs[1],
                                   "coordsys", line.word))]
            [] line.kind = "polygon" -> PolygonStep(st, line)
            [] OTHER -> st
          : st \in {[st0 EXCEPT !.line = line]} })

\* One pass of the loop of ds9regfile.read (lines 68-125).
ReadStep(st0, line) ==
    The({ CASE line.kind \in {"comment", "blank"} -> st
            [] line.kind = "global" ->
                  [st EXCEPT !.attrs = Given(OrderedDictOf(line.attrs, <<>>))]
            [] line.kind = "word" /\ line.word \in {"physical", "fk5"} ->
                  [st EXCEPT !.attrs =
                      Given(SetKey(IF st.attrs = Absent THEN <<>> ELSE st.attrs[1],
                                   "coordsys", line.word))]
            [] line.kind = "polygon" -> PolygonStep(st, line)
            [] OTHER -> st
          : st \in {[st0 EXCEPT !.line = line]} })

(***************************************************************************)
(* The region round trip: a caller builds a Geoset of up to MaxGeos Geos,  *)
(* writes it, and reads the file back.                                     *)
(***************************************************************************)
MaxGeos == 3

RECURSIVE TotalGeos(_)
TotalGeos(items) ==
    IF items = <<>> THEN 0 ELSE Len(Head(items)) + TotalGeos(Tail(items))

RegionInit ==
    /\ src = <<>>
    /\ doc = <<>>
    /\ res = ReaderStart
    /\ pc = "build"
    /\ nops = 0
    /\ heap = <<>>
    /\ last = NoCall

\* geoset.items.append(Item([Geo(shape)]))
AddItem ==
    /\ pc = "build"
    /\ TotalGeos(src) < MaxGeos
    /\ \E shape \in RegionShapes : src' = Append(src, <<shape>>)
    /\ UNCHANGED <<heap, last, nops, pc, doc, res>>

\* geoset.items[-1].geos.append(Geo(shape))
AddGeo ==
    /\ pc = "build"
    /\ src # <<>>
    /\ TotalGeos(src) < MaxGeos
    /\ \E shape \in RegionShapes :
          src' = [src EXCEPT ![Len(src)] = Append(@, shape)]
    /\ UNCHANGED <<heap, last, nops, pc, doc, res>>

\* ds9regfile.write(geoset, filename, coordsys=coordsys)
Write ==
    /\ pc = "build"
    /\ \E coordsys \in {Absent, Given("fk5")} :
          /\ doc' = ds9regfile_write(src, coordsys)
          /\ last' = [NoCall EXCEPT !.op = "write", !.coordsys = coordsys]
    /\ pc' = "written"
    /\ UNCHANGED <<heap, nops, src, res>>

\* The loop of ds9regfile.read over the lines of the file.
RECURSIVE ReadLines(_, _)
ReadLines(st, lines) ==
    IF lines = <<>> \/ st.exc # NoExc THEN st
    ELSE The({ ReadLines(next, Tail(lines)) : next \in {ReadStep(st, Head(lines))} })

\* ds9regfile.read(filename): geoset = Geoset(None); i0, j0, k0 = None, None,
\* None; the loop; return geoset.
ds9regfile_read(lines) == ReadLines(ReaderStart, lines)

Read ==
    /\ pc = "written"
    /\ res' = ds9regfile_read(doc)
    /\ pc' = "done"
    /\ UNCHANGED <<heap, last, nops, src, doc>>

RegionNext ==
    \/ AddItem
    \/ AddGeo
    \/ Write
    \/ Read

SpecRegion == RegionInit /\ [][RegionNext]_vars

(***************************************************************************)
(* The region reader on any file: it is at most MaxLines lines long and    *)
(* each line the loop comes to is any line.                                *)
(***************************************************************************)
MaxLines == 3

Triples == {<<0, 0, 0>>, <<0, 0, 1>>, <<0, 1, 0>>, <<1, 0, 0>>}

PolygonLines ==
    { [Line("polygon") EXCEPT !.coords = CoordTexts(ring), !.background = bg,
                              !.tags = <<Tag("item", t[1]), Tag("geo", t[2]),
                                         Tag("poly", t[3])>>]
      : ring \in {Outer, Lake}, bg \in BOOLEAN, t \in Triples }

StreamInit ==
    /\ src = <<>>
    /\ doc = <<>>
    /\ res = ReaderStart
    /\ pc = "stream"
    /\ nops = 0
    /\ heap = <<>>
    /\ last = NoCall

FeedSkipped ==
    /\ pc = "stream" /\ res.exc = NoExc /\ nops < MaxLines
    /\ \E kind \in {"comment", "blank", "other"} : res' = ReadStep(res, Line(kind))
    /\ nops' = nops + 1
    /\ UNCHANGED <<heap, last, pc, src, doc>>

FeedGlobal ==
    /\ pc = "stream" /\ res.exc = NoExc /\ nops < MaxLines
    /\ res' = ReadStep(res, GlobalLine(<<<<"color", "green">>>>))
    /\ nops' = nops + 1
    /\ UNCHANGED <<heap, last, pc, src, doc>>

FeedWord ==
    /\ pc = "stream" /\ res.exc = NoExc /\ nops < MaxLines
    /\ \E word \in {"physical", "image"} : res' = ReadStep(res, WordLine(word))
    /\ nops' = nops + 1
    /\ UNCHANGED <<heap, last, pc, src, doc>>

FeedPolygon ==
    /\ pc = "stream" /\ res.exc = NoExc /\ nops < MaxLines
    /\ \E line \in PolygonLines : res' = ReadStep(res, line)
    /\ nops' = nops + 1
    /\ UNCHANGED <<heap, last, pc, src, doc>>

StreamReturn ==
    /\ pc = "stream"
    /\ res.exc = NoExc
    /\ pc' = "done"
    /\ UNCHANGED <<heap, last, nops, src, doc, res>>

StreamNext ==
    \/ FeedSkipped
    \/ FeedGlobal
    \/ FeedWord
    \/ FeedPolygon
    \/ StreamReturn

SpecRegionRead == StreamInit /\ [][StreamNext]_vars

(***************************************************************************)
(* Properties of the region file model.                                    *)
(***************************************************************************)
Rounded(ring) ==
    [n \in DOMAIN ring |->
        <<ParseFloat(FormatFixed(ring[n][1], FmtDigits)),
          ParseFloat(FormatFixed(ring[n][2], FmtDigits))>>]

HolesRegion(subpoly) ==
    UNION {RingRegion(subpoly.holes[n]) : n \in DOMAIN subpoly.holes}

\* The union of the exterior rings with every hole subtracted.
ExteriorsLessHoles(shape) ==
    UNION {RingRegion(shape.polys[n].ext) : n \in DOMAIN shape.polys}
        \ UNION {HolesRegion(shape.polys[n]) : n \in DOMAIN shape.polys}

\* Sub-polygon after sub-polygon: its exterior ring, as written, is united
\* with what there is, and then its holes, as written, are taken out of it.
RECURSIVE FoldedRegion(_, _)
FoldedRegion(polys, acc) ==
    IF polys = <<>> THEN acc
    ELSE FoldedRegion(
            Tail(polys),
            (acc \cup RingRegion(Rounded(Head(polys).ext)))
                \ UNION {RingRegion(Rounded(Head(polys).holes[n]))
                         : n \in DOMAIN Head(polys).holes})

FifteenDecimals(shape) ==
    \A n \in DOMAIN shape.polys :
        /\ Rounded(shape.polys[n].ext) = shape.polys[n].ext
        /\ \A m \in DOMAIN shape.polys[n].holes :
              Rounded(shape.polys[n].holes[m]) = shape.polys[n].holes[m]

NoPartInAHole(shape) ==
    \A n, m \in DOMAIN shape.polys :
        n # m => RingRegion(shape.polys[n].ext) \cap HolesRegion(shape.polys[m]) = {}

SameHierarchy ==
    /\ Len(res.items) = Len(src)
    /\ \A a \in DOMAIN src : Len(res.items[a]) = Len(src[a])

\* C3 as stated: read after write gives the same numbers of Items and of
\* Geos in each Item, and every Geo's geometry is the union of its
\* sub-polygons' exterior rings with every hole subtracted.
C3_Original ==
    pc = "done" =>
        /\ SameHierarchy
        /\ \A a \in DOMAIN src : \A b \in DOMAIN src[a] :
              res.items[a][b] = ExteriorsLessHoles(src[a][b])

\* C3 amended: read after write gives the same numbers of Items and of Geos
\* in each Item; every Geo's geometry is built sub-polygon after
\* sub-polygon from the coordinates rounded to 15 decimals (exterior ring
\* united, then its own holes subtracted), and it is the union of the
\* exterior rings with every hole subtracted when no coordinate has more
\* than 15 decimals and no sub-polygon lies in a hole of another.
C3_Amended ==
    pc = "done" =>
        /\ SameHierarchy
        /\ \A a \in DOMAIN src : \A b \in DOMAIN src[a] :
              /\ res.items[a][b] = FoldedRegion(src[a][b].polys, {})
              /\ (FifteenDecimals(src[a][b]) /\ NoPartInAHole(src[a][b])) =>
                    res.items[a][b] = ExteriorsLessHoles(src[a][b])

\* C3 witness: two Items, the first with one polygon and the second with
\* one polygon with a hole, were written and read back, and the hole is
\* subtracted.
C3_Witness ==
    /\ pc = "done"
    /\ src = << <<Shape("Polygon", <<Poly(Outer, <<>>)>>)>>,
                <<Shape("Polygon", <<Poly(Outer, <<Lake>>)>>)>> >>
    /\ Len(res.items) = 2
    /\ res.items[2][1] = RingRegion(Outer) \ RingRegion(Lake)
    /\ res.items[2][1] # RingRegion(Outer)

TagIndex(line, name) ==
    Given(ParseInt((CHOOSE n \in {line.tags[m] : m \in DOMAIN line.tags} : n[1] = name)[2]))

PolygonOf(line) == RingRegion(RingOf(line.coords))

\* C4: the reader starts with the triple (None, None, None); a polygon line
\* with tags (i, j, k) appends a new Item with one new Geo if i # i0, else
\* appends a new Geo to the last Item if j # j0, else unites the polygon
\* into the current Geo if k # k0, else subtracts it from the current Geo
\* if the line is marked background, else changes nothing; after it the
\* triple is (i, j, k); any other line leaves the triple as it is.
C4_DecisionOrder ==
    /\ [](nops = 0 => <<res.i0, res.j0, res.k0>> = <<Absent, Absent, Absent>>)
    /\ [][nops' = nops + 1 =>
            LET line == res'.line
                i == TagIndex(line, "item")
                j == TagIndex(line, "geo")
                k == TagIndex(line, "poly")
                n == Len(res.items)
            IN IF line.kind = "polygon"
               THEN /\ <<res'.i0, res'.j0, res'.k0>> = <<i, j, k>>
                    /\ res'.items =
                          CASE i # res.i0 -> res.items \o << <<PolygonOf(line)>> >>
                            [] i = res.i0 /\ j # res.j0 ->
                                  [res.items EXCEPT ![n] = @ \o <<PolygonOf(line)>>]
                            [] i = res.i0 /\ j = res.j0 /\ k # res.k0 ->
                                  SetCurrentGeo(res.items,
                                                CurrentGeo(res.items) \cup PolygonOf(line))
                            [] i = res.i0 /\ j = res.j0 /\ k = res.k0 /\ line.background ->
                                  SetCurrentGeo(res.items,
                                                CurrentGeo(res.items) \ PolygonOf(line))
                            [] OTHER -> res.items
               ELSE <<res'.i0, res'.j0, res'.k0>> = <<res.i0, res.j0, res.k0>>]_vars

\* C4 witness: a background line with the tags of the line before it was
\* read and its polygon is subtracted from the current Geo.
C4_Witness ==
    /\ pc = "stream"
    /\ nops = 2
    /\ res.line.kind = "polygon"
    /\ res.line.background
    /\ Len(res.items) = 1
    /\ Len(res.items[1]) = 1
    /\ res.items[1][1] = RingRegion(Outer) \ RingRegion(Lake)

RECURSIVE SumSeq(_)
SumSeq(seq) == IF seq = <<>> THEN 0 ELSE Head(seq) + SumSeq(Tail(seq))

\* The number of polygon lines of a geometry, of an Item and of a whole
\* Geoset: one for each sub-polygon and one for each hole.
LinesOfGeo(shape) == SumSeq([k \in DOMAIN shape.polys |-> 1 + Len(shape.polys[k].holes)])
LinesOfItem(geos) == SumSeq([j \in DOMAIN geos |-> LinesOfGeo(geos[j])])
LinesOfItems(items) == SumSeq([i \in DOMAIN items |-> LinesOfItem(items[i])])

\* The number of lines before the exterior line of sub-polygon k of Geo j of
\* Item i (all counted from 1), the keyword line included.
LinesBefore(items, i, j, k) ==
    1 + LinesOfItems(SubSeq(items, 1, i - 1))
      + LinesOfItem(SubSeq(items[i], 1, j - 1))
      + LinesOfGeo(Shape(items[i][j].type, SubSeq(items[i][j].polys, 1, k - 1)))

TagsOf(i, j, k) == <<Tag("item", i), Tag("geo", j), Tag("poly", k)>>

\* C20: the file ds9regfile.write writes starts with the coordinate system
\* keyword ('physical' for coordsys None, else the caller's value); then
\* for Items i = 0.., Geos j = 0.. and sub-polygons k = 0.. in order comes
\* one polygon line for the exterior ring, tagged item i, geo j, poly k,
\* and right after it one line for each interior ring, with the same three
\* tags and the background marker; there are as many polygon lines as
\* sub-polygons and holes together.
C20_WriteProtocol ==
    (last.op = "write" /\ pc \in {"written", "done"}) =>
        /\ doc[1] = WordLine(IF last.coordsys = Absent THEN "physical"
                             ELSE last.coordsys[1])
        /\ Len(doc) = 1 + LinesOfItems(src)
        /\ \A n \in 2..Len(doc) : doc[n].kind = "polygon"
        /\ \A i \in DOMAIN src : \A j \in DOMAIN src[i] :
              \A k \in DOMAIN src[i][j].polys :
                 LET at == LinesBefore(src, i, j, k) + 1
                     subpoly == src[i][j].polys[k]
                 IN /\ doc[at].tags = TagsOf(i - 1, j - 1, k - 1)
                    /\ ~doc[at].background
                    /\ doc[at].coords = CoordTexts(subpoly.ext)
                    /\ \A m \in DOMAIN subpoly.holes :
                          /\ doc[at + m].tags = TagsOf(i - 1, j - 1, k - 1)
                          /\ doc[at + m].background
                          /\ doc[at + m].coords = CoordTexts(subpoly.holes[m])

\* C20 witness: a Geoset of a plain polygon in one Item and, in a second
\* Item, a multipolygon whose first part has a hole was written with
\* coordsys 'fk5' as five lines, the fourth being the hole's.
C20_Witness ==
    /\ last.op = "write" /\ pc = "written"
    /\ last.coordsys = Given("fk5")
    /\ src = << <<Shape("Polygon", <<Poly(Outer, <<>>)>>)>>,
                <<Shape("MultiPolygon", <<Poly(Outer, <<Lake>>), Poly(Far, <<>>)>>)>> >>
    /\ Len(doc) = 5
    /\ doc[1].word = "fk5"
    /\ doc[4].background /\ doc[4].tags = TagsOf(1, 0, 0)
    /\ doc[5].tags = TagsOf(1, 0, 1)

\* The tag triple written on a polygon line, and the triple the reader
\* remembers from the polygon line before.
TripleOf(line) == <<TagIndex(line, "item"), TagIndex(line, "geo"), TagIndex(line, "poly")>>
Remembered(st) == <<st.i0, st.j0, st.k0>>
NumGeos(items) == SumSeq([n \in DOMAIN items |-> Len(items[n])])

\* C22: a background polygon line whose triple differs from the remembered
\* triple is never subtracted: it becomes a new Item, a new Geo of the last
\* Item or is united into the current Geo, by the first index that differs;
\* a background line is subtracted exactly when its triple is the
\* remembered one.
C22_NoveltyBeatsHole ==
    [][(nops' = nops + 1 /\ res'.line.kind = "polygon" /\ res'.line.background) =>
         LET line == res'.line
             t == TripleOf(line)
             t0 == Remembered(res)
             n == Len(res.items)
         IN IF t # t0
            THEN /\ res'.items =
                       CASE t[1] # t0[1] -> Append(res.items, <<PolygonOf(line)>>)
                         [] t[1] = t0[1] /\ t[2] # t0[2] ->
                               [res.items EXCEPT ![n] = Append(@, PolygonOf(line))]
                         [] OTHER ->
                               SetCurrentGeo(res.items,
                                             CurrentGeo(res.items) \cup PolygonOf(line))
                 /\ \A a \in DOMAIN res.items : \A b \in DOMAIN res.items[a] :
                        res.items[a][b] \subseteq res'.items[a][b]
            ELSE res'.items = SetCurrentGeo(res.items,
                                            CurrentGeo(res.items) \ PolygonOf(line))]_vars

\* C22 witness: after a line tagged (0, 0, 0) a background line tagged
\* (0, 0, 1) was read and the one Geo is the union of the two polygons.
C22_Witness ==
    /\ pc = "stream"
    /\ nops = 2
    /\ res.line.kind = "polygon"
    /\ res.line.background
    /\ TripleOf(res.line) = <<Given(0), Given(0), Given(1)>>
    /\ Len(res.items) = 1
    /\ Len(res.items[1]) = 1
    /\ res.items[1][1] = RingRegion(Outer) \cup RingRegion(Lake)

\* C26: the reader uses the indices only against the remembered triple: it
\* starts with no Item and nothing remembered, a polygon line adds one Item
\* exactly when its item index differs from the remembered one and one Geo
\* exactly when its item or geo index does, the Items and Geos there
\* already stay in place, and no other line changes the counts.
C26_CountsByComparison ==
    /\ [](nops = 0 => (res.items = <<>> /\ Remembered(res) = <<Absent, Absent, Absent>>))
    /\ [][nops' = nops + 1 =>
            LET line == res'.line
                n == Len(res.items)
                newItem == line.kind = "polygon" /\ TagIndex(line, "item") # res.i0
                newGeo == line.kind = "polygon" /\
                             (TagIndex(line, "item") # res.i0 \/ TagIndex(line, "geo") # res.j0)
            IN /\ Len(res'.items) = n + (IF newItem THEN 1 ELSE 0)
               /\ NumGeos(res'.items) = NumGeos(res.items) + (IF newGeo THEN 1 ELSE 0)
               /\ \A a \in 1..n : Len(res'.items[a]) >= Len(res.items[a])
               /\ \A a \in 1..(n - 1) : res'.items[a] = res.items[a]]_vars

\* C26 witness: three polygon lines with item indices 0, 1, 0 were read and
\* the Geoset has three Items.
C26_Witness ==
    /\ pc = "stream"
    /\ nops = 3
    /\ res.line.kind = "polygon"
    /\ res.i0 = Given(0)
    /\ Len(res.items) = 3

\* C27: a polygon line that is not background and whose triple is the
\* remembered one leaves the attributes and the Items as they were and
\* raises nothing.
C27_RepeatDropped ==
    [][(nops' = nops + 1 /\ res'.line.kind = "polygon" /\ ~res'.line.background
          /\ TripleOf(res'.line) = Remembered(res)) =>
         (res'.items = res.items /\ res'.attrs = res.attrs /\ res'.exc = NoExc)]_vars

\* C27 witness: the second line carried the outer ring, not background,
\* with the tags of the first, and the one Geo is still the first polygon.
C27_Witness ==
    /\ pc = "stream"
    /\ nops = 2
    /\ res.line.kind = "polygon"
    /\ ~res.line.background
    /\ res.line.coords = CoordTexts(Outer)
    /\ Len(res.items) = 1
    /\ Len(res.items[1]) = 1
    /\ res.items[1][1] = RingRegion(Lake)
    /\ res.exc = NoExc

\* The value of key k in an attribute map, Absent when k is not a key.
Lookup(attrs, k) ==
    IF attrs = Absent \/ ~\E n \in DOMAIN attrs[1] : attrs[1][n][1] = k THEN Absent
    ELSE Given((CHOOSE e \in {attrs[1][n] : n \in DOMAIN attrs[1]} : e[1] = k)[2])

\* C28: a 'global' line makes the root attributes the map of that line
\* alone, so a 'coordsys' put there before is gone; a 'physical' or 'fk5'
\* line sets 'coordsys' in the map that is there and keeps its other keys;
\* neither changes the Items or the remembered triple.
C28_RootAttrsByOrder ==
    [][nops' = nops + 1 =>
         LET line == res'.line
         IN /\ line.kind = "global" =>
                  /\ res'.attrs = Given(OrderedDictOf(line.attrs, <<>>))
                  /\ Lookup(res'.attrs, "coordsys") = Absent
                  /\ res'.items = res.items
                  /\ Remembered(res') = Remembered(res)
            /\ (line.kind = "word" /\ line.word \in {"physical", "fk5"}) =>
                  /\ Lookup(res'.attrs, "coordsys") = Given(line.word)
                  /\ \A k \in {"color"} : Lookup(res'.attrs, k) = Lookup(res.attrs, k)
                  /\ Len(res'.attrs[1]) =
                        (IF res.attrs = Absent THEN 0 ELSE Len(res.attrs[1]))
                        + (IF Lookup(res.attrs, "coordsys") = Absent THEN 1 ELSE 0)
                  /\ res'.items = res.items
                  /\ Remembered(res') = Remembered(res)]_vars

\* C28 witness: a 'physical' line was read after a 'global' line; the map
\* holds the key of the 'global' line first and 'coordsys' after it.
C28_Witness ==
    /\ pc = "stream"
    /\ res.line.kind = "word"
    /\ res.attrs = Given(<<<<"color", "green">>, <<"coordsys", "physical">>>>)

\* C14 as stated: once the reader has met a line that is not blank, not a
\* comment, not a global line, not a coordinate system keyword and not a
\* polygon(...) line, the read has failed with an error and returns no
\* Geoset.
C14_MalformedFails ==
    res.line.kind = "other" => (res.exc # NoExc /\ pc # "done")

(***************************************************************************)
(* Attribute values and their texts, for the two XML formats.  A text is   *)
(* the characters it is made of: an integer literal ("12"), a decimal      *)
(* literal with the fractional digits as written ("0.3000"), a literal     *)
(* with an exponent ("3.0e-05"), or any other word.  A Python value is its *)
(* type and the text repr gives it; a string is its own characters, and    *)
(* may look like a number.                                                 *)
(***************************************************************************)
Text(form, whole, frac, exp, word) ==
    [form |-> form, whole |-> whole, frac |-> frac, exp |-> exp, word |-> word]
IntText(n) == Text("int", n, <<>>, 0, "")
FixedText(whole, frac) == Text("fixed", whole, frac, 0, "")
ExpText(whole, frac, exp) == Text("exp", whole, frac, exp, "")
WordText(word) == Text("word", 0, <<>>, 0, word)

PyVal(t, v) == [t |-> t, v |-> v]
PyInt(n) == PyVal("int", IntText(n))
PyFloat(whole, frac) == PyVal("float", FixedText(whole, frac))
PySci(whole, frac, exp) == PyVal("float", ExpText(whole, frac, exp))
PyBool(b) == PyVal("bool", WordText(IF b THEN "True" ELSE "False"))
PyStr(text) == PyVal("str", text)

Pad(frac, nd) == [n \in 1..nd |-> Digit(frac, n)]

\* 10^n
RECURSIVE Pow10(_)
Pow10(n) == IF n = 0 THEN 1 ELSE 10 * Pow10(n - 1)

\* float(text) for a literal: the float, as repr prints it (a literal with
\* an exponent from 0 to 15 is a float that prints without one)
FloatOf(text) ==
    IF text.form = "exp" /\ text.exp \in 0..15
    THEN PyFloat(text.whole * Pow10(text.exp)
                    + ParseInt(<<0>> \o Pad(text.frac, text.exp)),
                 StripZeros(SubSeq(text.frac, Min({text.exp, Len(text.frac)}) + 1,
                                   Len(text.frac))))
    ELSE IF text.form = "exp"
    THEN PySci(text.whole, StripZeros(text.frac), text.exp)
    ELSE IF text.form = "word"
    THEN PyVal("float", text)
    ELSE PyFloat(text.whole, StripZeros(text.frac))

\* int(val) and float(val) succeed (no ValueError)
ReadsAsInt(text) == text.form = "int"
ReadsAsFloat(text) ==
    \/ text.form \in {"int", "fixed", "exp"}
    \/ text.form = "word" /\ text.word \in {"nan", "inf"}

(***************************************************************************)
(* polylistxml: attribute values as XML attribute strings.                 *)
(***************************************************************************)
\* eformat = '%.16e', fformat = '%.16f'
FformatDigits == 16

\* add_XML_attrs, the text of one value: '%d' for an int, eformat for a
\* float whose str has an 'e', fformat for any other float, '%s' otherwise
AttrText(val) ==
    IF val.t = "int" THEN val.v
    ELSE IF val.t = "float" /\ val.v.form = "exp"
    THEN ExpText(val.v.whole, Pad(val.v.frac, FformatDigits), val.v.exp)
    ELSE IF val.t = "float" /\ val.v.form = "fixed"
    THEN The({ FixedText(d.whole, d.frac) : d \in {FormatFixed(val.v, FformatDigits)} })
    ELSE val.v

\* add_XML_attrs(attr_list, element): element.attrib after it
RECURSIVE add_XML_attrs(_, _)
add_XML_attrs(attr_list, attrib) ==
    IF attr_list = <<>> THEN attrib
    ELSE add_XML_attrs(
            Tail(attr_list),
            IF Head(attr_list)[1] = "" THEN attrib
            ELSE SetKey(attrib, Head(attr_list)[1], AttrText(Head(attr_list)[2])))

InferValue_FloatFirst(text) ==
    IF ReadsAsFloat(text) THEN FloatOf(text)
    ELSE IF ReadsAsInt(text) THEN PyInt(text.whole)
    ELSE IF text = WordText("True") THEN PyBool(TRUE)
    ELSE IF text = WordText("False") THEN PyBool(FALSE)
    ELSE PyStr(text)

\* get_XML_attrs, the value of one attribute string: int, else float, else
\* True / False, else the string
InferValue(text) ==
    IF ReadsAsInt(text) THEN PyInt(text.whole)
    ELSE IF ReadsAsFloat(text) THEN FloatOf(text)
    ELSE IF text = WordText("True") THEN PyBool(TRUE)
    ELSE IF text = WordText("False") THEN PyBool(FALSE)
    ELSE PyStr(text)

Reverse(seq) == [n \in DOMAIN seq |-> seq[Len(seq) + 1 - n]]

get_XML_attrs_KeepEmpty(attrib, inserted) ==
    Given(OrderedDictOf(
        [n \in DOMAIN attrib |->
            <<(IF inserted THEN attrib ELSE Reverse(attrib))[n][1],
              InferValue((IF inserted THEN attrib ELSE Reverse(attrib))[n][2])>>],
        <<>>))

\* get_XML_attrs(element): element.attrib.items() comes in the order the
\* XML library keeps, the one of insertion or another one
get_XML_attrs(attrib, inserted) ==
    IF attrib = <<>> THEN Absent
    ELSE Given(OrderedDictOf(
            [n \in DOMAIN attrib |->
                <<(IF inserted THEN attrib ELSE Reverse(attrib))[n][1],
                  InferValue((IF inserted THEN attrib ELSE Reverse(attrib))[n][2])>>],
            <<>>))

(***************************************************************************)
(* geosetxml: attribute lists as JSON, geometry as WKT, the header as one  *)
(* string of card images.                                                  *)
(***************************************************************************)
JsonToken(tok, text) == [tok |-> tok, text |-> text]

json_dumps_value_Fixed16(val) ==
    IF val.t = "float" /\ val.v.form = "fixed"
    THEN The({ JsonToken("num", FixedText(d.whole, d.frac))
               : d \in {FormatFixed(val.v, FformatDigits)} })
    ELSE IF val.t \in {"int", "float"} THEN JsonToken("num", val.v)
    ELSE IF val.t = "bool"
    THEN JsonToken("lit", WordText(IF val.v.word = "True" THEN "true" ELSE "false"))
    ELSE JsonToken("str", val.v)

\* json.dumps of one value: a number as repr prints it, true / false, or a
\* string
json_dumps_value(val) ==
    IF val.t = "float" /\ val.v.form = "fixed" /\ val.v.frac = <<>>
    THEN JsonToken("num", FixedText(val.v.whole, <<0>>))
    ELSE IF val.t \in {"int", "float"} THEN JsonToken("num", val.v)
    ELSE IF val.t = "bool"
    THEN JsonToken("lit", WordText(IF val.v.word = "True" THEN "true" ELSE "false"))
    ELSE JsonToken("str", val.v)

\* json.dumps(attrs.items()): an array of [key, value] arrays
json_dumps(items) ==
    [n \in DOMAIN items |->
        <<JsonToken("str", WordText(items[n][1])), json_dumps_value(items[n][2])>>]

\* json.loads of one value; strings come back as unicode strings
json_loads_value(token) ==
    IF token.tok = "num" /\ token.text.form = "int" THEN PyInt(token.text.whole)
    ELSE IF token.tok = "num" THEN FloatOf(token.text)
    ELSE IF token.tok = "lit" THEN PyBool(token.text.word = "true")
    ELSE PyVal("unicode", token.text)

\* OrderedDict(json.loads(attrs))
json_loads(array) ==
    OrderedDictOf([n \in DOMAIN array |->
                      <<array[n][1].text.word, json_loads_value(array[n][2])>>],
                  <<>>)

\* wkt.dumps prints every coordinate with 16 decimals
WktDigits == 16

RingText(ring) ==
    [n \in DOMAIN ring |->
        <<FormatFixed(ring[n][1], WktDigits), FormatFixed(ring[n][2], WktDigits)>>]

RingParsed(ring) ==
    [n \in DOMAIN ring |-> <<ParseFloat(ring[n][1]), ParseFloat(ring[n][2])>>]

wkt_dumps(shape) ==
    Shape(shape.type,
          [n \in DOMAIN shape.polys |->
              Poly(RingText(shape.polys[n].ext),
                   [m \in DOMAIN shape.polys[n].holes |->
                       RingText(shape.polys[n].holes[m])])])

wkt_loads(text) ==
    Shape(text.type,
          [n \in DOMAIN text.polys |->
              Poly(RingParsed(text.polys[n].ext),
                   [m \in DOMAIN text.polys[n].holes |->
                       RingParsed(text.polys[n].holes[m])])])

\* Header.tostring(): one card image per card, a string value in quotes,
\* and the END card; Header.fromstring reads the cards up to END
Card(key, quoted, text) == [key |-> key, quoted |-> quoted, text |-> text]

Header_tostring(cards) ==
    [n \in DOMAIN cards |->
        Card(cards[n][1], cards[n][2].t \in {"str", "unicode"}, cards[n][2].v)]
        \o <<Card("END", FALSE, WordText(""))>>

Header_fromstring(string) ==
    [n \in 1..(Len(string) - 1) |->
        <<string[n].key,
          IF string[n].quoted THEN PyStr(string[n].text) ELSE InferValue(string[n].text)>>]

(***************************************************************************)
(* XML trees, and Geosets as values: a Geoset is its attrs, header and     *)
(* Items, an Item its attrs and Geos, a Geo its attrs and geometry, each   *)
(* of attrs, header and geometry being Absent (None) or Given.             *)
(***************************************************************************)
Element(tag, attrib, text, children) ==
    [tag |-> tag, attrib |-> attrib, text |-> text, tail |-> Absent,
     children |-> children]

GeoVal(attrs, geo) == [attrs |-> attrs, geo |-> geo]
ItemVal(attrs, geos) == [attrs |-> attrs, geos |-> geos]
GeosetVal(attrs, hdr, items) == [attrs |-> attrs, hdr |-> hdr, items |-> items]

AttrElement_NoTextWhenEmpty(attrs) ==
    Element("ATTR", <<>>,
            IF attrs = Absent \/ attrs = Given(<<>>) THEN Absent
            ELSE Given(json_dumps(attrs[1])), <<>>)

\* geosetxml.toxml
AttrElement(attrs) ==
    Element("ATTR", <<>>, IF attrs = Absent THEN Absent ELSE Given(json_dumps(attrs[1])), <<>>)

geosetxml_toxml(geoset) ==
    Element("GEOSET", <<>>, Absent,
        <<AttrElement(geoset.attrs),
          Element("HEADER", <<>>,
                  IF geoset.hdr = Absent THEN Absent
                  ELSE Given(Header_tostring(geoset.hdr[1])), <<>>)>>
        \o [i \in DOMAIN geoset.items |->
              Element("ITEM", <<>>, Absent,
                  <<AttrElement(geoset.items[i].attrs)>>
                  \o [j \in DOMAIN geoset.items[i].geos |->
                        Element("GEO", <<>>, Absent,
                            <<AttrElement(geoset.items[i].geos[j].attrs),
                              Element("WKT", <<>>,
                                  IF geoset.items[i].geos[j].geo = Absent THEN Absent
                                  ELSE Given(wkt_dumps(geoset.items[i].geos[j].geo[1])),
                                  <<>>)>>)])])

\* geosetxml.fromxml
AttrsOf(attr_xml) ==
    IF attr_xml.text = Absent THEN Absent ELSE Given(json_loads(attr_xml.text[1]))

geosetxml_fromxml(geoset_xml) ==
    GeosetVal(
        AttrsOf(geoset_xml.children[1]),
        IF geoset_xml.children[2].text = Absent THEN Absent
        ELSE Given(Header_fromstring(geoset_xml.children[2].text[1])),
        [i \in 1..(Len(geoset_xml.children) - 2) |->
            LET item_xml == geoset_xml.children[i + 2]
            IN ItemVal(
                  AttrsOf(item_xml.children[1]),
                  [j \in 1..(Len(item_xml.children) - 1) |->
                      LET geo_xml == item_xml.children[j + 1]
                      IN GeoVal(AttrsOf(geo_xml.children[1]),
                                IF geo_xml.children[2].text = Absent THEN Absent
                                ELSE Given(wkt_loads(geo_xml.children[2].text[1])))])])

formatter_AllTexts(geoset_xml) ==
    [geoset_xml EXCEPT
        !.text = Given("\n  "),
        !.children = [i \in DOMAIN geoset_xml.children |->
                         [geoset_xml.children[i] EXCEPT !.text = Given("\n    "),
                                                        !.tail = Given("\n  ")]]]

\* geosetxml.formatter: spaces and newlines in the text of GEOSET and ITEM
\* and in the tails of their subelements
formatter(geoset_xml) ==
    LET n == Len(geoset_xml.children)
        item(item_xml) ==
            [item_xml EXCEPT
                !.text = Given("\n    "),
                !.tail = Given("\n  "),
                !.children =
                    [j \in DOMAIN item_xml.children |->
                        [item_xml.children[j] EXCEPT
                            !.tail = IF j = Len(item_xml.children) THEN Given("\n  ")
                                     ELSE Given("\n    ")]]]
    IN [geoset_xml EXCEPT
            !.text = Given("\n  "),
            !.tail = Given("\n"),
            !.children =
                [i \in DOMAIN geoset_xml.children |->
                    [(IF i > 2 THEN item(geoset_xml.children[i])
                      ELSE [geoset_xml.children[i] EXCEPT !.tail = Given("\n  ")])
                     EXCEPT !.tail = IF i = n THEN Given("\n") ELSE @]]]

\* tree.write(filename, encoding='UTF-8', xml_declaration=True) and
\* etree.parse(filename).getroot(): the file holds the declaration and the
\* tree, every text and tail as it is
etree_write(root) == [declaration |-> "UTF-8", root |-> root]
etree_parse(file) == file.root

geosetxml_write(geoset) == etree_write(formatter(geosetxml_toxml(geoset)))
geosetxml_read(file) == geosetxml_fromxml(etree_parse(file))

\* polylistxml.toxml
AttribOf(attrs) == IF attrs = Absent THEN <<>> ELSE add_XML_attrs(attrs[1], <<>>)

polylistxml_toxml(geoset) ==
    Element("POLYLIST", AttribOf(geoset.attrs), Absent,
        <<Element("HEADER", AttribOf(geoset.hdr), Absent, <<>>)>>
        \o [i \in DOMAIN geoset.items |->
              Element("ITEM", AttribOf(geoset.items[i].attrs), Absent,
                  [j \in DOMAIN geoset.items[i].geos |->
                      Element("POLY", AttribOf(geoset.items[i].geos[j].attrs),
                          IF geoset.items[i].geos[j].geo = Absent THEN Absent
                          ELSE Given(wkt_dumps(geoset.items[i].geos[j].geo[1])),
                          <<>>)])])

\* polylistxml.fromxml; hdr = fits.Header(hdr.items())
polylistxml_fromxml(polylist_xml, inserted) ==
    GeosetVal(
        get_XML_attrs(polylist_xml.attrib, inserted),
        get_XML_attrs(polylist_xml.children[1].attrib, inserted),
        [i \in 1..(Len(polylist_xml.children) - 1) |->
            LET item_xml == polylist_xml.children[i + 1]
            IN ItemVal(
                  get_XML_attrs(item_xml.attrib, inserted),
                  [j \in DOMAIN item_xml.children |->
                      GeoVal(get_XML_attrs(item_xml.children[j].attrib, inserted),
                             IF item_xml.children[j].text = Absent THEN Absent
                             ELSE Given(wkt_loads(item_xml.children[j].text[1])))])])

(***************************************************************************)
(* The XML round trips: a caller builds a Geoset of up to MaxNodes Items   *)
(* and Geos, converts it to a geoset XML tree or file or to a polylist XML *)
(* tree, and converts that back.                                           *)
(***************************************************************************)
MaxNodes == 3

\* An int, a float of 17 decimals, a bool and a string; floats with and
\* without an exponent; strings that read as an int and as a bool; a map
\* whose only key is ''.
AttrsMixed ==
    <<<<"n", PyInt(3)>>, <<"x", PyFloat(0, Frac3.frac)>>, <<"ok", PyBool(TRUE)>>,
      <<"s", PyStr(WordText("abc"))>>>>
AttrsFloats == <<<<"e", PySci(1, <<5>>, -5)>>, <<"h", PyFloat(1, <<5>>)>>>>
AttrsLookalikes == <<<<"s", PyStr(IntText(12))>>, <<"t", PyStr(WordText("True"))>>>>
AttrsNoKey == <<<<"", PyInt(1)>>>>

RootAttrs == {Absent, Given(AttrsMixed), Given(<<>>), Given(AttrsNoKey)}
ItemAttrs == {Absent, Given(AttrsLookalikes)}
GeoAttrs == {Absent, Given(AttrsFloats)}
Hdrs == {Absent, Given(<<<<"NAXIS", PyInt(2)>>, <<"OBJECT", PyStr(WordText("m31"))>>>>)}
Geometries ==
    {Absent, Given(Shape("Polygon", <<Poly(Sliver, <<>>)>>)),
     Given(Shape("Polygon", <<Poly(Outer, <<Lake>>)>>))}

RECURSIVE Nodes(_)
Nodes(items) ==
    IF items = <<>> THEN 0 ELSE 1 + Len(Head(items).geos) + Nodes(Tail(items))

XmlInit ==
    /\ \E attrs \in RootAttrs, hdr \in Hdrs : src = GeosetVal(attrs, hdr, <<>>)
    /\ doc = <<>>
    /\ res = <<>>
    /\ pc = "build"
    /\ nops = 0
    /\ heap = <<>>
    /\ last = NoCall

\* geoset.items.append(Item(None, attrs))
AppendItem ==
    /\ pc = "build"
    /\ Nodes(src.items) < MaxNodes
    /\ \E attrs \in ItemAttrs :
          src' = [src EXCEPT !.items = Append(@, ItemVal(attrs, <<>>))]
    /\ UNCHANGED <<heap, last, nops, pc, doc, res>>

\* geoset.items[-1].geos.append(Geo(geo, attrs))
AppendGeo ==
    /\ pc = "build"
    /\ src.items # <<>>
    /\ Nodes(src.items) < MaxNodes
    /\ \E attrs \in GeoAttrs, geo \in Geometries :
          src' = [src EXCEPT !.items[Len(src.items)].geos = Append(@, GeoVal(attrs, geo))]
    /\ UNCHANGED <<heap, last, nops, pc, doc, res>>

Document(format, content) == [format |-> format, content |-> content]

GeosetxmlToxml ==
    /\ pc = "build"
    /\ doc' = Document("geoset", geosetxml_toxml(src))
    /\ pc' = "tree"
    /\ UNCHANGED <<heap, last, nops, src, res>>

GeosetxmlFromxml ==
    /\ pc = "tree"
    /\ doc.format = "geoset"
    /\ res' = geosetxml_fromxml(doc.content)
    /\ pc' = "done"
    /\ UNCHANGED <<heap, last, nops, src, doc>>

GeosetxmlWrite ==
    /\ pc = "build"
    /\ doc' = Document("geoset", geosetxml_write(src))
    /\ pc' = "file"
    /\ UNCHANGED <<heap, last, nops, src, res>>

GeosetxmlRead ==
    /\ pc = "file"
    /\ doc.format = "geoset"
    /\ res' = geosetxml_read(doc.content)
    /\ pc' = "done"
    /\ UNCHANGED <<heap, last, nops, src, doc>>

PolylistxmlToxml ==
    /\ pc = "build"
    /\ doc' = Document("polylist", polylistxml_toxml(src))
    /\ pc' = "tree"
    /\ UNCHANGED <<heap, last, nops, src, res>>

PolylistxmlFromxml ==
    /\ pc = "tree"
    /\ doc.format = "polylist"
    /\ \E inserted \in BOOLEAN : res' = polylistxml_fromxml(doc.content, inserted)
    /\ pc' = "done"
    /\ UNCHANGED <<heap, last, nops, src, doc>>

XmlNext ==
    \/ AppendItem
    \/ AppendGeo
    \/ GeosetxmlToxml
    \/ GeosetxmlFromxml
    \/ GeosetxmlWrite
    \/ GeosetxmlRead
    \/ PolylistxmlToxml
    \/ PolylistxmlFromxml

SpecXml == XmlInit /\ [][XmlNext]_vars

(***************************************************************************)
(* get_XML_attrs on any element: its attributes are set one by one, up to  *)
(* MaxAttrs of them, each to any string, and then read.                    *)
(***************************************************************************)
MaxAttrs == 2

AttrKeys == {"a", "b", "c"}

\* Attribute strings: "12", "-3", "1.5", "0.300", "1.5e-05", "2e3", "nan",
\* "inf", "True", "False", "true", "abc" and "".
AttrStrings ==
    { IntText(12), IntText(0 - 3), FixedText(1, <<5>>), FixedText(0, <<3, 0, 0>>),
      ExpText(1, <<5>>, 0 - 5), ExpText(2, <<>>, 3), WordText("nan"), WordText("inf"),
      WordText("True"), WordText("False"), WordText("true"), WordText("abc"),
      WordText("") }

InferInit ==
    /\ doc = <<>>
    /\ res = <<>>
    /\ src = <<>>
    /\ pc = "attrib"
    /\ nops = 0
    /\ heap = <<>>
    /\ last = NoCall

\* element.set(key, string)
SetAttribute ==
    /\ pc = "attrib"
    /\ Len(doc) < MaxAttrs
    /\ \E key \in AttrKeys, string \in AttrStrings :
          /\ \A n \in DOMAIN doc : doc[n][1] # key
          /\ doc' = Append(doc, <<key, string>>)
    /\ UNCHANGED <<heap, last, nops, pc, src, res>>

\* get_XML_attrs(element)
GetXmlAttrs ==
    /\ pc = "attrib"
    /\ \E inserted \in BOOLEAN : res' = get_XML_attrs(doc, inserted)
    /\ pc' = "done"
    /\ UNCHANGED <<heap, last, nops, src, doc>>

InferNext ==
    \/ SetAttribute
    \/ GetXmlAttrs

SpecInfer == InferInit /\ [][InferNext]_vars

(***************************************************************************)
(* The three backends on one Geoset: a caller builds a Geoset, writes it   *)
(* to a file with geosetxml, polylistxml or ds9regfile, and reads the file *)
(* back with the same backend.                                             *)
(***************************************************************************)
Indent(level) ==
    CASE level = 0 -> "\n"
      [] level = 1 -> "\n  "
      [] level = 2 -> "\n    "
      [] OTHER -> "\n      "

\* not elem.text or not elem.text.strip(), for the text of an element with
\* subelements and for a tail
Blank(t) == t = Absent \/ t[1] \in {Indent(0), Indent(1), Indent(2), Indent(3)}

\* polylistxml.pretty_format(elem, level): the loop variable is elem itself,
\* so the test after the loop is on the last subelement.
RECURSIVE pretty_format(_, _)
pretty_format(elem, level) ==
    IF elem.children # <<>>
    THEN [elem EXCEPT
            !.text = IF Blank(@) THEN Given(Indent(level + 1)) ELSE @,
            !.tail = IF Blank(@) THEN Given(Indent(level)) ELSE @,
            !.children =
                [j \in DOMAIN elem.children |->
                    The({ IF j = Len(elem.children) /\ Blank(c.tail)
                          THEN [c EXCEPT !.tail = Given(Indent(level))]
                          ELSE c
                          : c \in {pretty_format(elem.children[j], level + 1)} })]]
    ELSE IF level > 0 /\ Blank(elem.tail)
    THEN [elem EXCEPT !.tail = Given(Indent(level))]
    ELSE elem

polylistxml_write(geoset) == etree_write(pretty_format(polylistxml_toxml(geoset), 0))
polylistxml_read(file, inserted) == polylistxml_fromxml(etree_parse(file), inserted)

\* ds9regfile.write on a Geoset value: poly.type raises AttributeError for a
\* Geo whose geometry is None, before the file is opened.
HasNoneGeometry(geoset) ==
    \E i \in DOMAIN geoset.items :
        \E j \in DOMAIN geoset.items[i].geos : geoset.items[i].geos[j].geo = Absent

ShapesOf(geoset) ==
    [i \in DOMAIN geoset.items |->
        [j \in DOMAIN geoset.items[i].geos |-> geoset.items[i].geos[j].geo[1]]]

\* The Geoset ds9regfile.read returns: Geoset(None) with the attrs the
\* global and coordinate system lines set, Item(geo) and Geo(poly) built
\* without attrs.
ds9regfile_geoset(st) ==
    GeosetVal(st.attrs, Absent,
        [i \in DOMAIN st.items |->
            ItemVal(Absent,
                [j \in DOMAIN st.items[i] |-> GeoVal(Absent, Given(st.items[i][j]))])])

Coordsys == {Absent, Given("fk5"), Given("image")}

PolylistxmlWrite ==
    /\ pc = "build"
    /\ doc' = Document("polylist", polylistxml_write(src))
    /\ pc' = "file"
    /\ UNCHANGED <<heap, last, nops, src, res>>

PolylistxmlRead ==
    /\ pc = "file"
    /\ doc.format = "polylist"
    /\ \E inserted \in BOOLEAN : res' = polylistxml_read(doc.content, inserted)
    /\ pc' = "done"
    /\ UNCHANGED <<heap, last, nops, src, doc>>

Ds9regfileWrite ==
    /\ pc = "build"
    /\ \E coordsys \in Coordsys :
          IF HasNoneGeometry(src)
          THEN /\ doc' = Document("ds9", <<>>)
               /\ pc' = "AttributeError"
          ELSE /\ doc' = Document("ds9", ds9regfile_write(ShapesOf(src), coordsys))
               /\ pc' = "file"
    /\ UNCHANGED <<heap, last, nops, src, res>>

Ds9regfileRead ==
    /\ pc = "file"
    /\ doc.format = "ds9"
    /\ \E st \in {ds9regfile_read(doc.content)} :
          IF st.exc # NoExc
          THEN pc' = st.exc /\ res' = res
          ELSE pc' = "done" /\ res' = ds9regfile_geoset(st)
    /\ UNCHANGED <<heap, last, nops, src, doc>>

BackendsNext ==
    \/ AppendItem
    \/ AppendGeo
    \/ GeosetxmlWrite
    \/ GeosetxmlRead
    \/ PolylistxmlWrite
    \/ PolylistxmlRead
    \/ Ds9regfileWrite
    \/ Ds9regfileRead

SpecBackends == XmlInit /\ [][BackendsNext]_vars

(***************************************************************************)
(* Properties of the XML round trips.                                      *)
(***************************************************************************)
TypeCategory(t) == IF t \in {"str", "unicode"} THEN "string" ELSE t

\* Both None, or maps with the same keys in the same order, the same
\* values and the same kinds of value.
SameAttrs(a, b) ==
    \/ a = Absent /\ b = Absent
    \/ /\ a # Absent /\ b # Absent
       /\ Len(a[1]) = Len(b[1])
       /\ \A n \in DOMAIN a[1] :
             /\ a[1][n][1] = b[1][n][1]
             /\ a[1][n][2].v = b[1][n][2].v
             /\ TypeCategory(a[1][n][2].t) = TypeCategory(b[1][n][2].t)

SameWkt(g, h) ==
    \/ g = Absent /\ h = Absent
    \/ g # Absent /\ h # Absent /\ wkt_dumps(g[1]) = wkt_dumps(h[1])

SameShape(g, h) ==
    /\ Len(h.items) = Len(g.items)
    /\ \A i \in DOMAIN g.items : Len(h.items[i].geos) = Len(g.items[i].geos)

\* C1: a Geoset with an Item, root attrs and a header comes back from
\* geosetxml.fromxml(geosetxml.toxml(g)), and from read after write, with
\* the same Items and Geos in order, at every level attrs with the same
\* keys in the same order, the same values and kinds of value (None stays
\* None), every geometry with the same WKT text (None stays None), and a
\* header with the same string form.
C1_RoundTrip ==
    (/\ pc = "done" /\ doc.format = "geoset"
     /\ src.items # <<>> /\ src.attrs # Absent /\ src.hdr # Absent) =>
        /\ SameShape(src, res)
        /\ SameAttrs(src.attrs, res.attrs)
        /\ res.hdr # Absent
        /\ Header_tostring(res.hdr[1]) = Header_tostring(src.hdr[1])
        /\ \A i \in DOMAIN src.items :
              /\ SameAttrs(src.items[i].attrs, res.items[i].attrs)
              /\ \A j \in DOMAIN src.items[i].geos :
                    /\ SameAttrs(src.items[i].geos[j].attrs, res.items[i].geos[j].attrs)
                    /\ SameWkt(src.items[i].geos[j].geo, res.items[i].geos[j].geo)

\* C1 witness: a Geoset with mixed root attrs, a header and a Geo whose
\* coordinates have more than 16 decimals was written to a file and read
\* back; the geometry read differs from the one written, its WKT does not.
C1_Witness ==
    /\ pc = "done" /\ doc.format = "geoset"
    /\ doc.content # geosetxml_toxml(src)
    /\ src.attrs = Given(AttrsMixed) /\ src.hdr # Absent
    /\ Len(src.items) = 1 /\ Len(src.items[1].geos) = 1
    /\ src.items[1].geos[1].attrs = Given(AttrsFloats)
    /\ src.items[1].geos[1].geo = Given(Shape("Polygon", <<Poly(Sliver, <<>>)>>))
    /\ res.items[1].geos[1].geo # src.items[1].geos[1].geo
    /\ res.attrs = Given([n \in DOMAIN AttrsMixed |->
                            IF AttrsMixed[n][2].t = "str"
                            THEN <<AttrsMixed[n][1], PyVal("unicode", AttrsMixed[n][2].v)>>
                            ELSE AttrsMixed[n]])

Pairs(map) == {map[n] : n \in DOMAIN map}

\* Both None, or maps with the same keys, each with the same value of the
\* same type.
SameMapping(a, b) ==
    \/ a = Absent /\ b = Absent
    \/ a # Absent /\ b # Absent /\ Pairs(a[1]) = Pairs(b[1])

\* A map the legacy round trip is claimed to keep: not empty, no empty
\* key, and only ints, floats, bools and strings that do not read as an
\* int, a float, "True" or "False".
KeptByLegacy(attrs) ==
    \/ attrs = Absent
    \/ /\ attrs[1] # <<>>
       /\ \A n \in DOMAIN attrs[1] :
             /\ attrs[1][n][1] # ""
             /\ \/ attrs[1][n][2].t \in {"int", "float", "bool"}
                \/ /\ attrs[1][n][2].t = "str"
                   /\ ~ReadsAsFloat(attrs[1][n][2].v)
                   /\ attrs[1][n][2].v.word \notin {"True", "False"}

AllKeptByLegacy(g) ==
    /\ KeptByLegacy(g.attrs)
    /\ \A i \in DOMAIN g.items :
          /\ KeptByLegacy(g.items[i].attrs)
          /\ \A j \in DOMAIN g.items[i].geos : KeptByLegacy(g.items[i].geos[j].attrs)

\* C2 as stated: a Geoset whose attrs maps are non-empty, have no empty
\* key and hold only ints, floats, bools and strings that do not read as a
\* number or a bool comes back from polylistxml.fromxml(polylistxml.toxml(g))
\* with the same Items and Geos in order, at every level the same keys with
\* the same values of the same types, and the same geometry WKT.
C2_LegacyRoundTrip ==
    (pc = "done" /\ doc.format = "polylist" /\ AllKeptByLegacy(src)) =>
        /\ SameShape(src, res)
        /\ SameMapping(src.attrs, res.attrs)
        /\ \A i \in DOMAIN src.items :
              /\ SameMapping(src.items[i].attrs, res.items[i].attrs)
              /\ \A j \in DOMAIN src.items[i].geos :
                    /\ SameMapping(src.items[i].geos[j].attrs, res.items[i].geos[j].attrs)
                    /\ SameWkt(src.items[i].geos[j].geo, res.items[i].geos[j].geo)

(***************************************************************************)
(* Properties of the three backends.                                       *)
(***************************************************************************)
EmptyRoot == GeosetVal(Absent, Absent, <<>>)

\* C13 as stated: the Geoset with no Items, attrs None and hdr None comes
\* back from write followed by read, in each of geosetxml, polylistxml and
\* ds9regfile, without raising and as a Geoset with no Items, attrs None
\* and hdr None.
C13_Original ==
    (src = EmptyRoot /\ pc \notin {"build", "file"}) =>
        pc = "done" /\ res = EmptyRoot

\* C13 amended: the round trip of the all-empty Geoset raises in no
\* backend and returns a Geoset with no Items and hdr None; attrs is None
\* from geosetxml and polylistxml, and from ds9regfile it is the map
\* {coordsys: keyword} of the keyword written ('physical' by default) when
\* that keyword is 'physical' or 'fk5', and None for any other keyword.
C13_Amended ==
    (src = EmptyRoot /\ pc \notin {"build", "file"}) =>
        /\ pc = "done"
        /\ res.items = <<>>
        /\ res.hdr = Absent
        /\ doc.format \in {"geoset", "polylist"} => res.attrs = Absent
        /\ doc.format = "ds9" =>
              res.attrs = IF doc.content[1].word \in {"physical", "fk5"}
                          THEN Given(<<<<"coordsys", doc.content[1].word>>>>)
                          ELSE Absent

\* C13 witness: the all-empty Geoset was written by ds9regfile with the
\* default keyword and read back with the attrs {coordsys: physical}.
C13_Witness ==
    /\ src = EmptyRoot /\ pc = "done" /\ doc.format = "ds9"
    /\ doc.content = <<WordLine("physical")>>
    /\ res = GeosetVal(Given(<<<<"coordsys", "physical">>>>), Absent, <<>>)

\* No Item and no Geo of the Geoset has an attrs map, and it has no header.
NoAttrsBelowRoot(geoset) ==
    /\ geoset.hdr = Absent
    /\ \A i \in DOMAIN geoset.items :
          /\ geoset.items[i].attrs = Absent
          /\ \A j \in DOMAIN geoset.items[i].geos :
                geoset.items[i].geos[j].attrs = Absent

\* C15 as stated: the Geoset read back from a file ds9regfile.write wrote
\* has hdr None and attrs None on every Item and Geo, whatever the written
\* Geoset carried, and its root attrs holds the coordinate system keyword
\* of the file and nothing else.
C15_RegionKeepsKeywordOnly ==
    (pc = "done" /\ doc.format = "ds9") =>
        /\ NoAttrsBelowRoot(res)
        /\ res.attrs = Given(<<<<"coordsys", doc.content[1].word>>>>)

\* The part of C15 the code keeps: attrs below the root and the header are
\* lost, and the keywords 'physical' and 'fk5' are kept.
C15_RecognisedKeyword ==
    (pc = "done" /\ doc.format = "ds9") =>
        /\ NoAttrsBelowRoot(res)
        /\ doc.content[1].word \in {"physical", "fk5"} =>
              res.attrs = Given(<<<<"coordsys", doc.content[1].word>>>>)

\* The Items of a Geoset that have a Geo, in their order.
NonEmptyItems(geoset) == SelectSeq(geoset.items, LAMBDA it : it.geos # <<>>)
PolygonLinesOf(lines) == SelectSeq(lines, LAMBDA l : l.kind = "polygon")

RootOf(d) == IF "root" \in DOMAIN d.content THEN d.content.root ELSE d.content
WritesNoAttribute(attrs) == attrs \in {Absent, Given(<<>>), Given(AttrsNoKey)}

\* C30: polylistxml reads attrs None from exactly the elements without XML
\* attributes and hdr None from a HEADER without attributes, so attrs
\* None, an empty attrs map and a map whose only key is '' all come back
\* as None; geosetxml writes an ATTR without text for attrs None and the
\* empty JSON array for an empty map, and reads None from the first and an
\* empty map from the second.
C30_AbsentVersusEmpty ==
    /\ (pc = "done" /\ doc.format = "polylist") =>
          /\ (RootOf(doc).attrib = <<>>) <=> (res.attrs = Absent)
          /\ (RootOf(doc).children[1].attrib = <<>>) <=> (res.hdr = Absent)
          /\ WritesNoAttribute(src.attrs) => res.attrs = Absent
          /\ ~WritesNoAttribute(src.attrs) => res.attrs # Absent
          /\ src.hdr = Absent => res.hdr = Absent
          /\ \A i \in DOMAIN src.items :
                /\ (RootOf(doc).children[i + 1].attrib = <<>>) <=> (res.items[i].attrs = Absent)
                /\ src.items[i].attrs = Absent => res.items[i].attrs = Absent
                /\ \A j \in DOMAIN src.items[i].geos :
                      src.items[i].geos[j].attrs = Absent => res.items[i].geos[j].attrs = Absent
    /\ (pc = "done" /\ doc.format = "geoset") =>
          /\ src.attrs = Absent =>
                (RootOf(doc).children[1].text = Absent /\ res.attrs = Absent)
          /\ src.attrs = Given(<<>>) =>
                (RootOf(doc).children[1].text = Given(<<>>) /\ res.attrs = Given(<<>>))
          /\ (res.attrs = Absent) <=> (src.attrs = Absent)
          /\ (res.hdr = Absent) <=> (src.hdr = Absent)
          /\ \A i \in DOMAIN src.items :
                /\ (res.items[i].attrs = Absent) <=> (src.items[i].attrs = Absent)
                /\ \A j \in DOMAIN src.items[i].geos :
                      (res.items[i].geos[j].attrs = Absent)
                         <=> (src.items[i].geos[j].attrs = Absent)

\* C30 witness: a Geoset whose root attrs has the empty string as its only
\* key went through polylistxml and came back with attrs None.
C30_Witness ==
    /\ pc = "done" /\ doc.format = "polylist"
    /\ src.attrs = Given(AttrsNoKey)
    /\ RootOf(doc).attrib = <<>>
    /\ res.attrs = Absent
    /\ src.items # <<>>

(***************************************************************************)
(* Properties of get_XML_attrs.                                            *)
(***************************************************************************)
ValueAt(map, key) == map[CHOOSE n \in DOMAIN map : map[n][1] = key][2]

IsIntString(s) == s.form = "int"
IsFloatString(s) == s.form \in {"fixed", "exp"} \/ s \in {WordText("nan"), WordText("inf")}

\* C19: get_XML_attrs gives every attribute a value and never fails: the
\* int for a string that parses as an int; else the float for a string
\* that parses as a float; else True for "True" and False for "False";
\* else the string itself.
C19_TrialOrder ==
    pc = "done" =>
        /\ doc = <<>> => res = Absent
        /\ doc # <<>> =>
              /\ res # Absent
              /\ {res[1][n][1] : n \in DOMAIN res[1]} = {doc[n][1] : n \in DOMAIN doc}
              /\ \A n \in DOMAIN doc :
                    LET s == doc[n][2]
                        val == ValueAt(res[1], doc[n][1])
                    IN CASE IsIntString(s) -> val.t = "int" /\ val.v = s
                         [] ~IsIntString(s) /\ IsFloatString(s) ->
                               val.t = "float" /\ val = FloatOf(s)
                         [] s = WordText("True") -> val = PyBool(TRUE)
                         [] s = WordText("False") -> val = PyBool(FALSE)
                         [] OTHER -> val.t = "str" /\ val.v = s

\* C19 witness: an element with the attributes "12" and "true" was read as
\* the int 12 and the string "true".
C19_Witness ==
    /\ pc = "done"
    /\ doc = <<<<"a", IntText(12)>>, <<"b", WordText("true")>>>>
    /\ ValueAt(res[1], "a") = PyInt(12)
    /\ ValueAt(res[1], "b") = PyStr(WordText("true"))

(***************************************************************************)
(* Properties of the formatting pass of geosetxml.                         *)
(***************************************************************************)
\* Tree b is tree a but for the tails of its elements and the text of its
\* GEOSET and ITEM elements.
RECURSIVE SameButLayout(_, _)
SameButLayout(a, b) ==
    /\ b.tag = a.tag
    /\ b.attrib = a.attrib
    /\ a.tag \notin {"GEOSET", "ITEM"} => b.text = a.text
    /\ Len(b.children) = Len(a.children)
    /\ \A n \in DOMAIN a.children : SameButLayout(a.children[n], b.children[n])

\* C21: the tree geosetxml.write puts in the file, formatter(toxml(g)),
\* differs from toxml(g) only in the text of GEOSET and ITEM elements and in
\* tails, never in the text of an ATTR, HEADER or WKT element; fromxml gives
\* the same Geoset for both; and the formatter passes a Geoset with no
\* Items and an Item with no Geos.
C21_FormatterCosmetic ==
    /\ (pc = "file" /\ doc.format = "geoset") =>
          /\ SameButLayout(geosetxml_toxml(src), doc.content.root)
          /\ geosetxml_fromxml(doc.content.root) = geosetxml_fromxml(geosetxml_toxml(src))
    /\ (pc = "done" /\ doc.format = "geoset") =>
          res = geosetxml_fromxml(geosetxml_toxml(src))

\* C21 witness: a Geoset of an Item with no Geos and an Item with one Geo
\* was written; the tree in the file has the formatter's whitespace and is
\* not the tree toxml gave.
C21_Witness ==
    /\ pc = "file" /\ doc.format = "geoset"
    /\ Len(src.items) = 2
    /\ src.items[1].geos = <<>>
    /\ Len(src.items[2].geos) = 1
    /\ src.items[2].geos[1].geo # Absent
    /\ doc.content.root # geosetxml_toxml(src)
    /\ doc.content.root.text = Given("\n  ")
    /\ doc.content.root.children[3].children[1].tail = Given("\n  ")
    /\ doc.content.root.children[4].children[2].tail = Given("\n  ")

(***************************************************************************)
(* _utils.clean_poly and _utils.safe_difference.  A polygon covers a set   *)
(* of the unit squares 1..MaxCells of a strip; squares next to each other  *)
(* are one polygon, so a region of several runs is a MultiPolygon.  The    *)
(* geometry library may leave, next to the polygons of a result, a part    *)
(* that is no polygon, an empty polygon or a polygon without area, and may *)
(* raise a TopologicalError from any difference.                           *)
(***************************************************************************)
MaxCells == 3
Cells == 1..MaxCells

Part(type, cells, is_empty) == [type |-> type, cells |-> cells, is_empty |-> is_empty]
Area(p) == IF p.type = "Polygon" THEN Cardinality(p.cells) ELSE 0
EmptyPart == Part("Polygon", {}, TRUE)
FlatPart == Part("Polygon", {}, FALSE)
LinePart == Part("LineString", {}, FALSE)

\* A geometry: its type and what iterating over it gives; a Polygon is one
\* part, itself.
Geometry(type, geoms) == [type |-> type, geoms |-> geoms]
\* geometry.Polygon()
EmptyPolygon == Geometry("Polygon", <<EmptyPart>>)

RECURSIVE RunsFrom(_, _)
RunsFrom(cells, c) ==
    IF c > MaxCells THEN <<>>
    ELSE IF c \in cells /\ (c - 1) \notin cells
    THEN <<Part("Polygon", {d \in cells : d >= c /\ \A x \in c..d : x \in cells}, FALSE)>>
            \o RunsFrom(cells, c + 1)
    ELSE RunsFrom(cells, c + 1)

\* The geometry the library returns for a region and what it leaves with it.
Assemble(cells, debris) ==
    The({ IF Len(parts) = 1 /\ parts[1].type = "Polygon"
          THEN Geometry("Polygon", parts)
          ELSE IF parts # <<>> /\ \A n \in DOMAIN parts : parts[n].type = "Polygon"
          THEN Geometry("MultiPolygon", parts)
          ELSE Geometry("GeometryCollection", parts)
          : parts \in {RunsFrom(cells, 1) \o debris} })

CellsOf(g) == UNION {g.geoms[n].cells : n \in DOMAIN g.geoms}

\* clean_poly, lines 250-261
clean_poly(poly) ==
    The({ IF Len(poly_list) > 1 THEN Geometry("MultiPolygon", poly_list)
          ELSE IF Len(poly_list) = 1 THEN Geometry("Polygon", poly_list)
          ELSE EmptyPolygon
          : poly_list \in {SelectSeq(poly.geoms,
                LAMBDA q : ~(q.type # "Polygon" \/ q.is_empty \/ Area(q) = 0))} })

\* poly.difference(p) for each p of poly2 in turn; the fail-th of these
\* raises.
RECURSIVE Retry(_, _, _, _)
Retry(cells, geoms, n, fail) ==
    IF n > Len(geoms) THEN [cells |-> cells, exc |-> NoExc]
    ELSE IF n = fail THEN [cells |-> cells, exc |-> "TopologicalError"]
    ELSE Retry(cells \ geoms[n].cells, geoms, n + 1, fail)

safe_difference_RetryUncleaned(poly1, poly2, lib) ==
    IF ~lib.whole
    THEN [value |-> clean_poly(Assemble(CellsOf(poly1) \ CellsOf(poly2), lib.debris)),
          exc |-> NoExc]
    ELSE The({ IF r.exc # NoExc THEN [value |-> EmptyPolygon, exc |-> r.exc]
               ELSE [value |-> Assemble(r.cells, lib.debris), exc |-> NoExc]
               : r \in {Retry(CellsOf(poly1), poly2.geoms, 1, lib.retry)} })

\* safe_difference, lines 269-279.  lib says what the library does: whether
\* poly1.difference(poly2) raises, which difference of the retry raises (0:
\* none), and what is left next to the polygons of the result.
safe_difference(poly1, poly2, lib) ==
    IF ~lib.whole
    THEN [value |-> clean_poly(Assemble(CellsOf(poly1) \ CellsOf(poly2), lib.debris)),
          exc |-> NoExc]
    ELSE The({ IF r.exc # NoExc THEN [value |-> EmptyPolygon, exc |-> r.exc]
               ELSE [value |-> clean_poly(Assemble(r.cells, lib.debris)), exc |-> NoExc]
               : r \in {Retry(CellsOf(poly1), poly2.geoms, 1, lib.retry)} })

Regions == {Assemble(cells, <<>>) : cells \in (SUBSET Cells) \ {{}}}
Debris == {<<>>, <<LinePart>>, <<EmptyPart>>, <<FlatPart>>, <<FlatPart, LinePart>>}

DifferenceInit ==
    /\ \E poly1 \in Regions, poly2 \in Regions, whole \in BOOLEAN,
          retry \in 0..2, debris \in Debris :
          src = [poly1 |-> poly1, poly2 |-> poly2,
                 lib |-> [whole |-> whole, retry |-> retry, debris |-> debris]]
    /\ res = <<>>
    /\ pc = "call"
    /\ doc = <<>> /\ heap = <<>> /\ last = NoCall /\ nops = 0

\* safe_difference(poly1, poly2)
SafeDifference ==
    /\ pc = "call"
    /\ \E x \in {safe_difference(src.poly1, src.poly2, src.lib)} :
          /\ res' = x
          /\ pc' = IF x.exc = NoExc THEN "returned" ELSE "raised"
    /\ UNCHANGED <<src, doc, heap, last, nops>>

DifferenceNext == SafeDifference

SpecDifference == DifferenceInit /\ [][DifferenceNext]_vars

\* The retry raises: it was entered and its differences reach the one
\* that fails.
RetryRaises == src.lib.whole /\ src.lib.retry \in 1..Len(src.poly2.geoms)

\* C24: safe_difference raises only when a difference of the retry raises,
\* and then raises that error; when poly1.difference(poly2) raises and the
\* retry does not, it returns poly1 less every sub-polygon of poly2 (poly2
\* itself when it is a Polygon); poly1 is as it was; whatever it returns,
\* on either path, is a value of clean_poly: the empty Polygon when no
\* polygon with area is left, else a Polygon or MultiPolygon whose parts
\* are all polygons, not empty and with area.
C24_LocalRecovery ==
    /\ pc = "raised" => (RetryRaises /\ res.exc = "TopologicalError")
    /\ pc = "returned" =>
          /\ ~RetryRaises
          /\ res.exc = NoExc
          /\ CellsOf(res.value) = CellsOf(src.poly1) \ CellsOf(src.poly2)
          /\ res.value.geoms = IF CellsOf(res.value) = {} THEN <<EmptyPart>>
                               ELSE RunsFrom(CellsOf(res.value), 1)
          /\ res.value.type = IF Len(res.value.geoms) > 1 THEN "MultiPolygon" ELSE "Polygon"
          /\ res.value # EmptyPolygon =>
                \A n \in DOMAIN res.value.geoms :
                   /\ res.value.geoms[n].type = "Polygon"
                   /\ ~res.value.geoms[n].is_empty
                   /\ Area(res.value.geoms[n]) > 0
          /\ res.value = clean_poly(res.value)
    /\ pc # "call" => src.poly1 \in Regions

\* C24 witness: the difference from a MultiPolygon of two polygons raised,
\* the retry did not, the library left a part without area and a line,
\* and the polygon returned is what is left of poly1.
C24_Witness ==
    /\ pc = "returned"
    /\ src.lib.whole
    /\ src.lib.debris = <<FlatPart, LinePart>>
    /\ src.poly2.type = "MultiPolygon"
    /\ src.poly1.type = "Polygon"
    /\ res.value = Assemble({2}, <<>>)

====
